---- MODULE Spec2Model ----
(***************************************************************************)
(* Risk/position engine (core/risk_manager.py), order gateway              *)
(* (core/order_executor.py) and execution loop (core/trading_bot.py) of    *)
(* the DNSE trading bot.                                                   *)
(*                                                                         *)
(* Number representation.  The program computes with Python floats.  Here  *)
(* every price (entry, current, stop, take-profit) is an integer number    *)
(* of hundredths of a price unit, tick prices are whole price units        *)
(* (multiples of 100 hundredths), quantities are shares, and money         *)
(* (capital, position value) is in whole currency units, so that           *)
(* quantity * price = (quantity * hundredths) \div 100 is exact for whole  *)
(* lots.  Percentages (risk_per_trade, default_stop_loss_pct,              *)
(* max_drawdown_pct, trailing_pct) are integer percents.  Ratios           *)
(* (max_drawdown, pnl_percent) are exact fractions [num, den].             *)
(***************************************************************************)
EXTENDS Integers, Sequences, FiniteSets, TLC

\* ------------------------------------------------------------------------
\* Configuration (utils/config.py Settings, RiskManager.__init__), scaled
\* down so that every admission rule can be reached with three symbols.
\* ------------------------------------------------------------------------
initial_capital == 1500
max_position_size == 900
max_positions == 2
risk_per_trade == 2
default_stop_loss_pct == 3
max_drawdown_pct == 10
LotSize == 100

Symbols == {"VCB", "VHM", "VIC"}

\* The symbols the bot is started with (TradingBot.symbols, dca_symbols)
BotSymbols == {"VCB", "VHM"}

\* Tick prices: 4.00 and 5.00
TickPrices == {400, 500}

\* Bound on the number of successful opens in one behaviour.
MaxTrades == 2

None == <<>>
Some(x) == <<x>>

\* ------------------------------------------------------------------------
\* Arithmetic helpers
\* ------------------------------------------------------------------------
Abs(x) == IF x < 0 THEN -x ELSE x
Min(a, b) == IF a < b THEN a ELSE b

\* Python int(n / d) for d > 0: truncation toward zero.
IntDiv(n, d) == IF n >= 0 THEN n \div d ELSE -((-n) \div d)

RECURSIVE GCD(_, _)
GCD(a, b) == IF b = 0 THEN a ELSE GCD(b, a % b)

\* A fraction in lowest terms (den > 0).
Frac(n, d) == LET g == GCD(Abs(n), d) IN [num |-> n \div g, den |-> d \div g]
FracZero == [num |-> 0, den |-> 1]
FracGE(a, b) == a.num * b.den >= b.num * a.den
FracGT(a, b) == a.num * b.den > b.num * a.den
\* Python max(a, b): the first argument unless the second is strictly larger.
FracMax(a, b) == IF FracGT(b, a) THEN b ELSE a
\* fraction >= pct percent
FracGEPct(a, pct) == a.num * 100 >= pct * a.den
FracGTPct(a, pct) == a.num * 100 > pct * a.den

\* quantity * price in currency units (price in hundredths)
Value(quantity, price) == (quantity * price) \div 100

\* price * (1 - pct/100) and price * (1 + pct/100), in hundredths
PctBelow(price, pct) == (price * (100 - pct)) \div 100
PctAbove(price, pct) == (price * (100 + pct)) \div 100

\* ------------------------------------------------------------------------
\* self.positions: a Python dict, i.e. an insertion-ordered map keyed by
\* symbol, modelled as a sequence of Position records.
\* ------------------------------------------------------------------------
Has(ps, s) == \E i \in 1..Len(ps) : ps[i].symbol = s
Idx(ps, s) == CHOOSE i \in 1..Len(ps) : ps[i].symbol = s
Get(ps, s) == ps[Idx(ps, s)]
Put(ps, pos) ==
    IF Has(ps, pos.symbol) THEN [ps EXCEPT ![Idx(ps, pos.symbol)] = pos]
    ELSE Append(ps, pos)
Del(ps, s) == SelectSeq(ps, LAMBDA p : p.symbol # s)
Keys(ps) == [i \in 1..Len(ps) |-> ps[i].symbol]

\* update_pnl computing the P&L before it stores the new price
update_pnl_stale_price(pos, current_price) ==
    [pos EXCEPT !.current_price = current_price,
                !.pnl = Value(pos.quantity, pos.current_price - pos.avg_entry_price),
                !.pnl_percent = Frac(pos.current_price - pos.avg_entry_price,
                                     pos.avg_entry_price)]

\* Position.update_pnl
update_pnl(pos, current_price) ==
    [pos EXCEPT !.current_price = current_price,
                !.pnl = Value(pos.quantity, current_price - pos.avg_entry_price),
                !.pnl_percent = Frac(current_price - pos.avg_entry_price,
                                     pos.avg_entry_price)]

\* Position(...) followed by __post_init__
NewPosition(symbol, quantity, entry_price, stop_loss_price, take_profit_price) ==
    update_pnl([symbol |-> symbol, quantity |-> quantity,
                avg_entry_price |-> entry_price, current_price |-> entry_price,
                stop_loss_price |-> stop_loss_price,
                take_profit_price |-> take_profit_price,
                pnl |-> 0, pnl_percent |-> FracZero], entry_price)

should_stop_loss(pos) == pos.current_price <= pos.stop_loss_price

should_take_profit(pos) ==
    IF pos.take_profit_price = None THEN FALSE
    ELSE pos.current_price >= pos.take_profit_price[1]

\* ------------------------------------------------------------------------
\* RiskManager.  An engine value rm is the record of the object's fields
\*   positions, current_capital, peak_capital, max_drawdown
\* plus the history of the calls that succeeded so far: opens and closes
\* count the successful open_position / close_position calls, net_flow is
\* the sum of the exit values of the closes minus the sum of the entry
\* values of the opens.
\* ------------------------------------------------------------------------
\* calculate_position_size without the rounding down to the lot size
calculate_position_size_no_lot(rm, entry_price, stop_loss_price) ==
    LET risk_per_share == Abs(entry_price - stop_loss_price)
        byRisk == IntDiv(rm.current_capital * risk_per_trade, risk_per_share)
        max_shares_by_value == IntDiv(max_position_size * 100, entry_price)
    IN  IF risk_per_share = 0 THEN 0
        ELSE Min(byRisk, max_shares_by_value)

calculate_position_size(rm, entry_price, stop_loss_price) ==
    LET risk_per_share == Abs(entry_price - stop_loss_price)
        \* int((capital * r/100) / (risk_per_share/100))
        byRisk == IntDiv(rm.current_capital * risk_per_trade, risk_per_share)
        max_shares_by_value == IntDiv(max_position_size * 100, entry_price)
        shares == Min(byRisk, max_shares_by_value)
    IN  IF risk_per_share = 0 THEN 0
        ELSE (shares \div LotSize) * LotSize

calculate_stop_loss_price(entry_price, side) ==
    IF side = "BUY" THEN PctBelow(entry_price, default_stop_loss_pct)
    ELSE PctAbove(entry_price, default_stop_loss_pct)

\* can_open_position without the "position already exists" check
can_open_position_no_exists(rm, symbol, position_value) ==
    IF Len(rm.positions) >= max_positions THEN "MaxPositions"
    ELSE IF position_value > max_position_size THEN "ExceedsLimit"
    ELSE IF position_value > rm.current_capital THEN "InsufficientCapital"
    ELSE IF FracGEPct(rm.max_drawdown, max_drawdown_pct) THEN "MaxDrawdown"
    ELSE "OK"

\* can_open_position testing "position already exists" before the
\* positions limit
can_open_position_exists_first(rm, symbol, position_value) ==
    IF Has(rm.positions, symbol) THEN "Exists"
    ELSE IF Len(rm.positions) >= max_positions THEN "MaxPositions"
    ELSE IF position_value > max_position_size THEN "ExceedsLimit"
    ELSE IF position_value > rm.current_capital THEN "InsufficientCapital"
    ELSE IF FracGEPct(rm.max_drawdown, max_drawdown_pct) THEN "MaxDrawdown"
    ELSE "OK"

\* can_open_position without the positions limit
can_open_position_no_limit(rm, symbol, position_value) ==
    IF Has(rm.positions, symbol) THEN "Exists"
    ELSE IF position_value > max_position_size THEN "ExceedsLimit"
    ELSE IF position_value > rm.current_capital THEN "InsufficientCapital"
    ELSE IF FracGEPct(rm.max_drawdown, max_drawdown_pct) THEN "MaxDrawdown"
    ELSE "OK"

\* can_open_position without the capital rule
can_open_position_no_capital(rm, symbol, position_value) ==
    IF Len(rm.positions) >= max_positions THEN "MaxPositions"
    ELSE IF Has(rm.positions, symbol) THEN "Exists"
    ELSE IF position_value > max_position_size THEN "ExceedsLimit"
    ELSE IF FracGEPct(rm.max_drawdown, max_drawdown_pct) THEN "MaxDrawdown"
    ELSE "OK"

\* can_open_position without the drawdown rule
can_open_position_no_drawdown(rm, symbol, position_value) ==
    IF Len(rm.positions) >= max_positions THEN "MaxPositions"
    ELSE IF Has(rm.positions, symbol) THEN "Exists"
    ELSE IF position_value > max_position_size THEN "ExceedsLimit"
    ELSE IF position_value > rm.current_capital THEN "InsufficientCapital"
    ELSE "OK"

can_open_position(rm, symbol, position_value) ==
    IF Len(rm.positions) >= max_positions THEN "MaxPositions"
    ELSE IF Has(rm.positions, symbol) THEN "Exists"
    ELSE IF position_value > max_position_size THEN "ExceedsLimit"
    ELSE IF position_value > rm.current_capital THEN "InsufficientCapital"
    ELSE IF FracGEPct(rm.max_drawdown, max_drawdown_pct) THEN "MaxDrawdown"
    ELSE "OK"

\* open_position relying on the caller's admission check
open_position_no_recheck(rm, symbol, quantity, entry_price, stop_loss_price, take_profit_price) ==
    LET position_value == Value(quantity, entry_price)
        stop == IF stop_loss_price = None
                THEN calculate_stop_loss_price(entry_price, "BUY")
                ELSE stop_loss_price[1]
        position == NewPosition(symbol, quantity, entry_price, stop, take_profit_price)
    IN  [rm EXCEPT !.positions = Put(rm.positions, position),
                   !.current_capital = rm.current_capital - position_value,
                   !.opens = rm.opens + 1,
                   !.net_flow = rm.net_flow - Value(quantity, entry_price)]

open_position(rm, symbol, quantity, entry_price, stop_loss_price, take_profit_price) ==
    LET position_value == Value(quantity, entry_price)
        stop == IF stop_loss_price = None
                THEN calculate_stop_loss_price(entry_price, "BUY")
                ELSE stop_loss_price[1]
        position == NewPosition(symbol, quantity, entry_price, stop, take_profit_price)
    IN  IF can_open_position(rm, symbol, position_value) # "OK" THEN rm
        ELSE [rm EXCEPT !.positions = Put(rm.positions, position),
                        !.current_capital = rm.current_capital - position_value,
                        !.opens = rm.opens + 1,
                        !.net_flow = rm.net_flow - Value(quantity, entry_price)]

\* close_position crediting the realised P&L instead of the exit value
close_position_credit_pnl(rm, symbol, exit_price) ==
    IF ~Has(rm.positions, symbol) THEN rm
    ELSE LET position == update_pnl(Get(rm.positions, symbol), exit_price)
             cap == rm.current_capital + position.pnl
             newHigh == cap > rm.peak_capital
             drawdown == Frac(rm.peak_capital - cap, rm.peak_capital)
         IN  [rm EXCEPT !.positions = Del(rm.positions, symbol),
                        !.current_capital = cap,
                        !.peak_capital = IF newHigh THEN cap ELSE rm.peak_capital,
                        !.max_drawdown = IF newHigh THEN rm.max_drawdown
                                         ELSE FracMax(rm.max_drawdown, drawdown),
                        !.closes = rm.closes + 1,
                        !.net_flow = rm.net_flow + Value(position.quantity, exit_price)]

\* close_position storing the current drawdown instead of the maximum
close_position_last_drawdown(rm, symbol, exit_price) ==
    IF ~Has(rm.positions, symbol) THEN rm
    ELSE LET position == Get(rm.positions, symbol)
             exit_value == Value(position.quantity, exit_price)
             cap == rm.current_capital + exit_value
             newHigh == cap > rm.peak_capital
             drawdown == Frac(rm.peak_capital - cap, rm.peak_capital)
         IN  [rm EXCEPT !.positions = Del(rm.positions, symbol),
                        !.current_capital = cap,
                        !.peak_capital = IF newHigh THEN cap ELSE rm.peak_capital,
                        !.max_drawdown = IF newHigh THEN rm.max_drawdown ELSE drawdown,
                        !.closes = rm.closes + 1,
                        !.net_flow = rm.net_flow + Value(position.quantity, exit_price)]

\* close_position without the early return for a symbol that has no
\* position: nothing is credited, the peak / drawdown update runs and
\* True is returned
close_position_no_guard(rm, symbol, exit_price) ==
    LET exit_value == IF Has(rm.positions, symbol)
                      THEN Value(Get(rm.positions, symbol).quantity, exit_price)
                      ELSE 0
        cap == rm.current_capital + exit_value
        newHigh == cap > rm.peak_capital
        drawdown == Frac(rm.peak_capital - cap, rm.peak_capital)
    IN  [rm EXCEPT !.positions = Del(rm.positions, symbol),
                   !.current_capital = cap,
                   !.peak_capital = IF newHigh THEN cap ELSE rm.peak_capital,
                   !.max_drawdown = IF newHigh THEN rm.max_drawdown
                                    ELSE FracMax(rm.max_drawdown, drawdown),
                   !.closes = rm.closes + 1,
                   !.net_flow = rm.net_flow + exit_value]

close_position(rm, symbol, exit_price) ==
    IF ~Has(rm.positions, symbol) THEN rm
    ELSE LET position == Get(rm.positions, symbol)
             exit_value == Value(position.quantity, exit_price)
             cap == rm.current_capital + exit_value
             newHigh == cap > rm.peak_capital
             drawdown == Frac(rm.peak_capital - cap, rm.peak_capital)
         IN  [rm EXCEPT !.positions = Del(rm.positions, symbol),
                        !.current_capital = cap,
                        !.peak_capital = IF newHigh THEN cap ELSE rm.peak_capital,
                        !.max_drawdown = IF newHigh THEN rm.max_drawdown
                                         ELSE FracMax(rm.max_drawdown, drawdown),
                        !.closes = rm.closes + 1,
                        !.net_flow = rm.net_flow + Value(position.quantity, exit_price)]

update_position_price(rm, symbol, current_price) ==
    IF Has(rm.positions, symbol)
    THEN [rm EXCEPT !.positions =
             Put(rm.positions, update_pnl(Get(rm.positions, symbol), current_price))]
    ELSE rm

\* update_trailing_stop without the "only if higher" test
update_trailing_stop_always(rm, symbol, trailing_pct) ==
    IF ~Has(rm.positions, symbol) THEN rm
    ELSE LET position == Get(rm.positions, symbol)
             new_stop == PctBelow(position.current_price, trailing_pct)
         IN  [rm EXCEPT !.positions =
                 Put(rm.positions, [position EXCEPT !.stop_loss_price = new_stop])]

update_trailing_stop(rm, symbol, trailing_pct) ==
    IF ~Has(rm.positions, symbol) THEN rm
    ELSE LET position == Get(rm.positions, symbol)
             new_stop == PctBelow(position.current_price, trailing_pct)
         IN  IF new_stop > position.stop_loss_price
             THEN [rm EXCEPT !.positions =
                      Put(rm.positions, [position EXCEPT !.stop_loss_price = new_stop])]
             ELSE rm

\* ------------------------------------------------------------------------
\* OrderExecutor.  ex is the record of the executor's fields paper_mode,
\* paper_cash, paper_positions (the orders dict, a log of accepted orders
\* that no operation reads back, is left out).
\*
\* A handler is evaluated on a "world" w: the engine rm, the executor ex,
\* the gateway's answers to the place_order calls still to come (gw, used
\* in live mode only, one answer per call in call order), and bookkeeping
\* of the evaluation itself:
\*   more    place_order was called with no answer left in gw: the run is
\*           to be repeated with one more answer (see Run)
\*   raised  an exception is propagating
\*   ret     the value returned by the last call (a boolean)
\*   att     the outcome of the last place_order call, "none" before it
\*   calls   number of open_position / close_position calls made so far
\*   failed_attempt_mutated, order_failed   observers, see Observe
\*   events  what the run did that a user or the gateway can see, in order:
\*           <<"order", symbol, side, outcome>>      place_order was called
\*           <<"open", symbol>>                      open_position inserted
\*           <<"close", symbol, reason>>             close_position removed
\*           <<"notify", symbol>>                    send_notification call
\*           <<"check_stop_loss", symbol>>           check_stop_loss entered
\*           <<"stop_loss_triggered", symbol>>       should_stop_loss() held
\*           <<"check_take_profit", symbol>>         check_take_profit entered
\*           <<"dispatch", symbol, signal_type>>     an _execute_ method entered
\*           <<"tick", symbol, signal_type, strength>>   _on_price_update entered,
\*                                    with the signal generate_signal will give
\*           <<"monitor_positions", symbols_to_check>>   monitor_positions entered
\*           <<"process_signal", symbol, signal_type>>   _process_signal entered
\*           <<"started", is_running>>   _on_price_update or _dca_job entered,
\*                                    with the value self.is_running had then
\* and, for the TradingBot handlers, processed (self.processed_signals) and
\* now (int(time.time() / 60), the current minute bucket).
\* ------------------------------------------------------------------------
Outcomes == {"accepted", "rejected", "error"}

Log(w, e) == [w EXCEPT !.events = Append(@, e)]

\* _make_request in live mode: "accepted" is a response with success true,
\* "rejected" a response without it, "error" a RequestException (transport
\* error, HTTP error status, timeout), for which it returns None.
place_order(w, symbol, side, quantity, price, order_type) ==
    IF w.ex.paper_mode
    THEN LET delta == IF side = "BUY" THEN quantity ELSE -quantity
         IN  [w EXCEPT !.ex.paper_cash = @ - Value(delta, price),
                       !.ex.paper_positions[symbol] = @ + delta,
                       !.att = "accepted", !.ret = TRUE,
                       !.events = Append(Append(@,
                           <<"submit", symbol, side, quantity, price, order_type>>),
                           <<"order", symbol, side, "accepted">>)]
    ELSE IF w.gw = <<>>
    THEN [w EXCEPT !.more = TRUE, !.att = "error", !.ret = FALSE, !.raised = TRUE]
    ELSE LET response == Head(w.gw)
             w1 == [w EXCEPT !.gw = Tail(w.gw), !.att = response,
                             !.events = Append(Append(@,
                                 <<"submit", symbol, side, quantity, price, order_type>>),
                                 <<"order", symbol, side, response>>)]
         IN  IF response = "accepted" THEN [w1 EXCEPT !.ret = TRUE]
             ELSE IF response = "rejected" THEN [w1 EXCEPT !.ret = FALSE]
             \* response is None: response.get("message") raises AttributeError
             ELSE [w1 EXCEPT !.ret = FALSE, !.raised = TRUE]

\* The engine's ledger: what an order attempt must not touch when it fails.
Ledger(rm) == <<rm.positions, rm.current_capital, rm.peak_capital, rm.max_drawdown>>

\* Observer of one order-submitting path: w0 is the world before the path
\* ran, w1 after it returned (or raised).
Observe(w0, w1) ==
    IF w1.att = "none" THEN w1
    ELSE [w1 EXCEPT
            !.order_failed = @ \/ w1.att # "accepted",
            !.failed_attempt_mutated =
                \/ w0.failed_attempt_mutated
                \/ /\ w1.att # "accepted"
                   /\ \/ Ledger(w1.rm) # Ledger(w0.rm)
                      \/ w1.calls # w0.calls]

Begin(w) == [w EXCEPT !.att = "none", !.ret = FALSE]

rm_open(w, symbol, quantity, entry_price, stop_loss_price, take_profit_price) ==
    LET rm2 == open_position(w.rm, symbol, quantity, entry_price,
                             stop_loss_price, take_profit_price)
        call == <<"open_position", symbol, quantity, entry_price, stop_loss_price>>
    IN  [w EXCEPT !.rm = rm2, !.calls = @ + 1, !.ret = (rm2.opens # w.rm.opens),
                  !.events = IF rm2.opens # w.rm.opens
                             THEN Append(Append(@, call), <<"open", symbol>>)
                             ELSE Append(@, call)]

rm_close(w, symbol, exit_price, reason) ==
    LET rm2 == close_position(w.rm, symbol, exit_price)
    IN  [w EXCEPT !.rm = rm2, !.calls = @ + 1, !.ret = (rm2.closes # w.rm.closes),
                  !.events = IF rm2.closes # w.rm.closes
                             THEN Append(@, <<"close", symbol, reason>>) ELSE @]

\* NotificationManager.send_notification: never raises.
send_notification(w, symbol) == Log(w, <<"notify", symbol>>)

\* RiskManager.check_stop_loss / check_take_profit
check_stop_loss(w0, symbol) ==
    LET w == Log(w0, <<"check_stop_loss", symbol>>)
    IN  IF ~Has(w.rm.positions, symbol) THEN [w EXCEPT !.ret = FALSE]
        ELSE LET position == Get(w.rm.positions, symbol)
                 w1 == place_order(Log(w, <<"stop_loss_triggered", symbol>>),
                                   symbol, "SELL", position.quantity,
                                   position.current_price, "MARKET")
             IN  IF ~should_stop_loss(position) THEN [w EXCEPT !.ret = FALSE]
                 ELSE IF w1.raised THEN w1
                 ELSE IF w1.ret
                      THEN [rm_close(w1, symbol, position.current_price, "Stop Loss")
                               EXCEPT !.ret = TRUE]
                      ELSE [w1 EXCEPT !.ret = FALSE]

check_take_profit(w0, symbol) ==
    LET w == Log(w0, <<"check_take_profit", symbol>>)
    IN  IF ~Has(w.rm.positions, symbol) THEN [w EXCEPT !.ret = FALSE]
        ELSE LET position == Get(w.rm.positions, symbol)
                 w1 == place_order(w, symbol, "SELL", position.quantity,
                                   position.current_price, "LIMIT")
             IN  IF ~should_take_profit(position) THEN [w EXCEPT !.ret = FALSE]
                 ELSE IF w1.raised THEN w1
                 ELSE IF w1.ret
                      THEN [rm_close(w1, symbol, position.current_price, "Take Profit")
                               EXCEPT !.ret = TRUE]
                      ELSE [w1 EXCEPT !.ret = FALSE]

\* One iteration of the loop of monitor_positions.
monitor_symbol(w, symbol) ==
    LET sl == Observe(w, check_stop_loss(Begin(w), symbol))
        tp == Observe(sl, check_take_profit(Begin(sl), symbol))
    IN  IF sl.raised \/ sl.ret THEN sl
        ELSE IF tp.raised \/ tp.ret THEN tp
        ELSE IF /\ Has(tp.rm.positions, symbol)
                /\ FracGTPct(Get(tp.rm.positions, symbol).pnl_percent, 5)
             THEN [tp EXCEPT !.rm = update_trailing_stop(tp.rm, symbol, 3)]
             ELSE tp

RECURSIVE monitor_loop(_, _)
monitor_loop(w, symbols_to_check) ==
    IF symbols_to_check = <<>> \/ w.raised THEN w
    ELSE monitor_loop(monitor_symbol(w, Head(symbols_to_check)),
                      Tail(symbols_to_check))

monitor_positions(w) ==
    monitor_loop(Log(w, <<"monitor_positions", Keys(w.rm.positions)>>),
                 Keys(w.rm.positions))

\* ------------------------------------------------------------------------
\* TradingBot (core/trading_bot.py)
\* ------------------------------------------------------------------------
dca_amount == 500
dca_symbols == <<"VCB", "VHM">>

\* _execute_buy submitting the order without asking can_open_position
_execute_buy_no_admission(w, symbol, entry_price) ==
    LET stop_loss_price == calculate_stop_loss_price(entry_price, "BUY")
        quantity == calculate_position_size(w.rm, entry_price, stop_loss_price)
        reason == can_open_position(w.rm, symbol, Value(quantity, entry_price))
        ws == Log(w, <<"size", symbol, quantity>>)
        wc == Log(ws, <<"can_open", symbol, reason>>)
        w1 == place_order(wc, symbol, "BUY", quantity, entry_price, "LIMIT")
    IN  IF quantity = 0 THEN ws
        ELSE IF w1.raised THEN w1
        ELSE IF w1.ret
             THEN send_notification(
                      rm_open(w1, symbol, quantity, entry_price,
                              Some(stop_loss_price), None), symbol)
             ELSE w1

\* _execute_buy opening the position with a take-profit price 25% above
\* the entry
_execute_buy_with_target(w, symbol, entry_price) ==
    LET stop_loss_price == calculate_stop_loss_price(entry_price, "BUY")
        quantity == calculate_position_size(w.rm, entry_price, stop_loss_price)
        reason == can_open_position(w.rm, symbol, Value(quantity, entry_price))
        ws == Log(w, <<"size", symbol, quantity>>)
        wc == Log(ws, <<"can_open", symbol, reason>>)
        w1 == place_order(wc, symbol, "BUY", quantity, entry_price, "LIMIT")
    IN  IF quantity = 0 THEN ws
        ELSE IF reason # "OK" THEN send_notification(wc, symbol)
        ELSE IF w1.raised THEN w1
        ELSE IF w1.ret
             THEN send_notification(
                      rm_open(w1, symbol, quantity, entry_price,
                              Some(stop_loss_price),
                              Some(PctAbove(entry_price, 25))), symbol)
             ELSE w1

_execute_buy(w, symbol, entry_price) ==
    LET stop_loss_price == calculate_stop_loss_price(entry_price, "BUY")
        quantity == calculate_position_size(w.rm, entry_price, stop_loss_price)
        reason == can_open_position(w.rm, symbol, Value(quantity, entry_price))
        ws == Log(w, <<"size", symbol, quantity>>)
        wc == Log(ws, <<"can_open", symbol, reason>>)
        w1 == place_order(wc, symbol, "BUY", quantity, entry_price, "LIMIT")
    IN  IF quantity = 0 THEN ws
        ELSE IF reason # "OK" THEN send_notification(wc, symbol)
        ELSE IF w1.raised THEN w1
        ELSE IF w1.ret
             THEN send_notification(
                      rm_open(w1, symbol, quantity, entry_price,
                              Some(stop_loss_price), None), symbol)
             ELSE w1

\* _execute_sell closing the position whatever place_order returned
_execute_sell_unconfirmed(w, symbol, exit_price) ==
    IF ~Has(w.rm.positions, symbol) THEN w
    ELSE LET position == Get(w.rm.positions, symbol)
             w1 == place_order(w, symbol, "SELL", position.quantity, exit_price,
                               "LIMIT")
         IN  IF w1.raised THEN w1
             ELSE send_notification(rm_close(w1, symbol, exit_price, "Signal"), symbol)

\* _execute_sell selling one lot instead of the position's quantity
_execute_sell_one_lot(w, symbol, exit_price) ==
    IF ~Has(w.rm.positions, symbol) THEN w
    ELSE LET w1 == place_order(w, symbol, "SELL", LotSize, exit_price, "LIMIT")
         IN  IF w1.raised THEN w1
             ELSE IF w1.ret
                  THEN send_notification(rm_close(w1, symbol, exit_price, "Signal"),
                                         symbol)
             ELSE w1

_execute_sell(w, symbol, exit_price) ==
    IF ~Has(w.rm.positions, symbol) THEN w
    ELSE LET position == Get(w.rm.positions, symbol)
             w1 == place_order(w, symbol, "SELL", position.quantity, exit_price,
                               "LIMIT")
         IN  IF w1.raised THEN w1
             ELSE IF w1.ret
                  THEN send_notification(rm_close(w1, symbol, exit_price, "Signal"),
                                         symbol)
             ELSE w1

_execute_cutloss(w, symbol, exit_price) ==
    IF ~Has(w.rm.positions, symbol) THEN w
    ELSE LET position == Get(w.rm.positions, symbol)
             w1 == place_order(w, symbol, "SELL", position.quantity, exit_price,
                               "MARKET")
         IN  IF w1.raised THEN w1
             ELSE IF w1.ret
                  THEN send_notification(rm_close(w1, symbol, exit_price, "CUTLOSS"),
                                         symbol)
             ELSE w1

\* _process_signal adding the identity of a WEAK signal to processed_signals
_process_signal_records_weak(w, symbol, sig, price) ==
    LET signal_id == <<symbol, sig.signal_type, w.now>>
        wp == Log(w, <<"process_signal", symbol, sig.signal_type>>)
        w0 == Log(Begin(wp), <<"dispatch", symbol, sig.signal_type>>)
        w1 == IF sig.signal_type = "BUY"
              THEN Observe(w0, _execute_buy(w0, symbol, price))
              ELSE IF sig.signal_type = "SELL"
              THEN Observe(w0, _execute_sell(w0, symbol, price))
              ELSE IF sig.signal_type = "CUTLOSS"
              THEN Observe(w0, _execute_cutloss(w0, symbol, price))
              ELSE w0
    IN  IF signal_id \in w.processed THEN wp
        ELSE IF sig.strength = "WEAK"
             THEN [wp EXCEPT !.processed = wp.processed \cup {signal_id}]
        ELSE IF w1.raised THEN w1
        ELSE [w1 EXCEPT !.processed =
                 {sid \in w1.processed \cup {signal_id} : sid[3] > w1.now - 60}]

\* _process_signal recording the identity without the clean-up
_process_signal_no_prune(w, symbol, sig, price) ==
    LET signal_id == <<symbol, sig.signal_type, w.now>>
        wp == Log(w, <<"process_signal", symbol, sig.signal_type>>)
        w0 == Log(Begin(wp), <<"dispatch", symbol, sig.signal_type>>)
        w1 == IF sig.signal_type = "BUY"
              THEN Observe(w0, _execute_buy(w0, symbol, price))
              ELSE IF sig.signal_type = "SELL"
              THEN Observe(w0, _execute_sell(w0, symbol, price))
              ELSE IF sig.signal_type = "CUTLOSS"
              THEN Observe(w0, _execute_cutloss(w0, symbol, price))
              ELSE w0
    IN  IF signal_id \in w.processed THEN wp
        ELSE IF sig.strength = "WEAK" THEN wp
        ELSE IF w1.raised THEN w1
        ELSE [w1 EXCEPT !.processed = w1.processed \cup {signal_id}]

\* A signal identity: <<symbol, signal_type, minute bucket>>.
_process_signal(w, symbol, sig, price) ==
    LET signal_id == <<symbol, sig.signal_type, w.now>>
        wp == Log(w, <<"process_signal", symbol, sig.signal_type>>)
        w0 == Log(Begin(wp), <<"dispatch", symbol, sig.signal_type>>)
        w1 == IF sig.signal_type = "BUY"
              THEN Observe(w0, _execute_buy(w0, symbol, price))
              ELSE IF sig.signal_type = "SELL"
              THEN Observe(w0, _execute_sell(w0, symbol, price))
              ELSE IF sig.signal_type = "CUTLOSS"
              THEN Observe(w0, _execute_cutloss(w0, symbol, price))
              ELSE w0
    IN  IF signal_id \in w.processed THEN wp
        ELSE IF sig.strength = "WEAK" THEN wp
        ELSE IF w1.raised THEN w1
        ELSE [w1 EXCEPT !.processed =
                 {sid \in w1.processed \cup {signal_id} : sid[3] > w1.now - 60}]

\* The body of _on_price_update with the signal dispatched before the
\* position is marked and monitored
on_price_update_body_signal_first(w, symbol, price, sig) ==
    LET w0 == Log(Log(Log(w, <<"started", w.is_running>>),
                      <<"tick", symbol, sig.signal_type, sig.strength>>),
                  <<"update_price", symbol, price>>)
        w1 == Log(w0, <<"generate_signal", symbol, price>>)
        w2 == IF sig.signal_type \notin {"NONE", "HOLD"}
              THEN _process_signal(w1, symbol, sig, price)
              ELSE w1
        w3 == [Log(w2, <<"update_position_price", symbol, price>>)
                  EXCEPT !.rm = update_position_price(w2.rm, symbol, price)]
    IN  IF w2.raised THEN w2 ELSE monitor_positions(w3)

\* The body of the try block of _on_price_update; sig is what
\* signal_engine.generate_signal returns for this tick ("NONE" for None).
on_price_update_body(w, symbol, price, sig) ==
    LET w0 == Log(Log(Log(w, <<"started", w.is_running>>),
                      <<"tick", symbol, sig.signal_type, sig.strength>>),
                  <<"update_price", symbol, price>>)
        w1 == [Log(w0, <<"update_position_price", symbol, price>>)
                  EXCEPT !.rm = update_position_price(w0.rm, symbol, price)]
        w2 == monitor_positions(w1)
        w3 == Log(w2, <<"generate_signal", symbol, price>>)
    IN  IF w2.raised THEN w2
        ELSE IF sig.signal_type \notin {"NONE", "HOLD"}
             THEN _process_signal(w3, symbol, sig, price)
             ELSE w3

\* except Exception: the error is logged and the handler returns.
_on_price_update(w, symbol, price, sig) ==
    [on_price_update_body(w, symbol, price, sig) EXCEPT !.raised = FALSE]

\* The DCA iteration buying without asking can_open_position
dca_symbol_body_no_admission(w, symbol, latest) ==
    LET entry_price == latest[symbol]
        quantity == (IntDiv(dca_amount * 100, entry_price) \div LotSize) * LotSize
        stop_loss_price == calculate_stop_loss_price(entry_price, "BUY")
        w1 == place_order(w, symbol, "BUY", quantity, entry_price, "LIMIT")
    IN  IF entry_price = 0 THEN w
        ELSE IF quantity = 0 THEN w
        ELSE IF w1.raised THEN w1
        ELSE IF w1.ret
             THEN send_notification(
                      rm_open(w1, symbol, quantity, entry_price,
                              Some(stop_loss_price), None), symbol)
             ELSE w1

\* One iteration of the loop of _dca_job, the body of its try block;
\* latest is price_stream_manager.latest_prices (0: no price data).
dca_symbol_body(w, symbol, latest) ==
    LET entry_price == latest[symbol]
        quantity == (IntDiv(dca_amount * 100, entry_price) \div LotSize) * LotSize
        stop_loss_price == calculate_stop_loss_price(entry_price, "BUY")
        w1 == place_order(w, symbol, "BUY", quantity, entry_price, "LIMIT")
    IN  IF entry_price = 0 THEN w
        ELSE IF quantity = 0 THEN w
        ELSE IF can_open_position(w.rm, symbol, Value(quantity, entry_price)) # "OK"
             THEN w
        ELSE IF w1.raised THEN w1
        ELSE IF w1.ret
             THEN send_notification(
                      rm_open(w1, symbol, quantity, entry_price,
                              Some(stop_loss_price), None), symbol)
             ELSE w1

RECURSIVE dca_loop(_, _, _)
dca_loop(w, symbols, latest) ==
    IF symbols = <<>> THEN w
    ELSE LET w0 == Begin(w)
             w1 == Observe(w0, dca_symbol_body(w0, Head(symbols), latest))
         IN  dca_loop([w1 EXCEPT !.raised = FALSE], Tail(symbols), latest)

_dca_job(w, latest) ==
    dca_loop(Log(w, <<"started", w.is_running>>), dca_symbols, latest)

\* RiskManager.get_portfolio_summary: reads the engine, writes nothing.
RECURSIVE SumSeq(_)
SumSeq(s) == IF s = <<>> THEN 0 ELSE Head(s) + SumSeq(Tail(s))

get_portfolio_summary(rm) ==
    LET total_pnl == SumSeq([i \in 1..Len(rm.positions) |-> rm.positions[i].pnl])
        total_position_value ==
            SumSeq([i \in 1..Len(rm.positions) |->
                       Value(rm.positions[i].quantity, rm.positions[i].current_price)])
    IN  [initial_capital |-> initial_capital,
         current_capital |-> rm.current_capital,
         total_position_value |-> total_position_value,
         total_value |-> rm.current_capital + total_position_value,
         total_pnl |-> total_pnl,
         max_drawdown |-> rm.max_drawdown,
         num_positions |-> Len(rm.positions)]

\* ------------------------------------------------------------------------
\* SignalEngine (core/signal_engine.py)
\* ------------------------------------------------------------------------
\* PriceHistory's default max_size, and the max_size of test_max_size
default_max_size == 500
test_max_size == 3
\* generate_signal's minimum history
min_history == 30

\* collections.deque(maxlen = maxlen).append(x) keeping everything
DequeAppend_unbounded(d, x, maxlen) == Append(d, x)

\* collections.deque(maxlen = maxlen).append(x): a full deque drops its
\* leftmost item
DequeAppend(d, x, maxlen) ==
    IF Len(d) < maxlen THEN Append(d, x) ELSE Tail(Append(d, x))

\* PriceHistory.__init__
PriceHistory(max_size) ==
    [max_size |-> max_size, prices |-> <<>>, volumes |-> <<>>,
     timestamps |-> <<>>, highs |-> <<>>, lows |-> <<>>]

\* PriceHistory.add; timestamp is None or Some(t), now is datetime.now()
HistoryAdd(h, price, volume, high, low, timestamp, now) ==
    [h EXCEPT !.prices = DequeAppend(@, price, h.max_size),
              !.volumes = DequeAppend(@, volume, h.max_size),
              !.highs = DequeAppend(@, high, h.max_size),
              !.lows = DequeAppend(@, low, h.max_size),
              !.timestamps = DequeAppend(@, IF timestamp = None THEN now
                                            ELSE timestamp[1], h.max_size)]

\* PriceHistory.__len__
HistoryLen(h) == Len(h.prices)

\* SignalEngine.update_price; ph is self.price_histories (symbol -> None
\* while the symbol is not in the dict, Some(history) afterwards)
update_price(ph, symbol, price, volume, high, low, now) ==
    LET h == IF ph[symbol] = None THEN PriceHistory(default_max_size)
             ELSE ph[symbol][1]
    IN  [ph EXCEPT ![symbol] = Some(HistoryAdd(h, price, volume, high, low, None, now))]

\* The votes of the six strategies of generate_signal: how many appended
\* BUY, SELL and CUTLOSS to `signals` (the indicator arithmetic that decides
\* each vote is not modelled: every combination of votes is offered).
Votes == [buy : 0..3, sell : 0..3, cutloss : 0..1]

VoteStrength_strong_from_two(count) ==
    IF count >= 2 THEN "STRONG" ELSE "WEAK"

VoteStrength(count) ==
    IF count >= 3 THEN "STRONG" ELSE IF count >= 2 THEN "MODERATE" ELSE "WEAK"

NoSignal == [signal_type |-> "NONE", strength |-> "WEAK"]

\* generate_signal without the minimum-history check
generate_signal_no_minimum(ph, symbol, votes) ==
    IF ph[symbol] = None THEN NoSignal
    ELSE IF votes.buy + votes.sell + votes.cutloss = 0
         THEN [signal_type |-> "HOLD", strength |-> "WEAK"]
    ELSE IF votes.cutloss > 0
         THEN [signal_type |-> "CUTLOSS", strength |-> "STRONG"]
    ELSE IF votes.buy > votes.sell
         THEN [signal_type |-> "BUY", strength |-> VoteStrength(votes.buy)]
    ELSE IF votes.sell > votes.buy
         THEN [signal_type |-> "SELL", strength |-> VoteStrength(votes.sell)]
    ELSE [signal_type |-> "HOLD", strength |-> "WEAK"]

\* SignalEngine.generate_signal: NoSignal stands for None
generate_signal(ph, symbol, votes) ==
    IF ph[symbol] = None THEN NoSignal
    ELSE IF HistoryLen(ph[symbol][1]) < min_history THEN NoSignal
    ELSE IF votes.buy + votes.sell + votes.cutloss = 0
         THEN [signal_type |-> "HOLD", strength |-> "WEAK"]
    ELSE IF votes.cutloss > 0
         THEN [signal_type |-> "CUTLOSS", strength |-> "STRONG"]
    ELSE IF votes.buy > votes.sell
         THEN [signal_type |-> "BUY", strength |-> VoteStrength(votes.buy)]
    ELSE IF votes.sell > votes.buy
         THEN [signal_type |-> "SELL", strength |-> VoteStrength(votes.sell)]
    ELSE [signal_type |-> "HOLD", strength |-> "WEAK"]

\* settings.enable_support_resistance_strategy, and the lookback and the
\* minimum number of rows of detect_support_resistance
enable_support_resistance_strategy == TRUE
support_lookback == 50
support_min_rows == 10

\* DataFrame.tail(n) of one column
TailOf(col, n) == IF Len(col) <= n THEN col ELSE SubSeq(col, Len(col) - n + 1, Len(col))

RECURSIVE SeqMin(_)
SeqMin(col) == IF Len(col) = 1 THEN col[1] ELSE Min(col[1], SeqMin(Tail(col)))

\* SignalEngine.detect_support_resistance, the support level it returns:
\* the lowest low of the last `lookback` rows, 0 without ten rows
detect_support(ph, symbol, lookback) ==
    IF ph[symbol] = None THEN 0
    ELSE LET lows == TailOf(ph[symbol][1].lows, lookback)
         IN  IF Len(lows) < support_min_rows THEN 0 ELSE SeqMin(lows)

\* Strategy 2 of generate_signal: the vote it appends to `signals` ("NONE":
\* it appends nothing).  Prices are whole numbers, so `support * 1.002` and
\* `support * 0.98` are compared after scaling both sides.
support_resistance_vote(current_price, support) ==
    IF enable_support_resistance_strategy /\ support > 0
    THEN IF current_price * 1000 <= support * 1002 THEN "BUY"
         ELSE IF current_price * 100 <= support * 98 THEN "SELL"
         ELSE "NONE"
    ELSE "NONE"

\* calculate_rsi's default period
rsi_period == 14

\* The sum of the rises (up) or of the falls of the last n steps of a
\* price column
RECURSIVE Moves(_, _, _)
Moves(prices, n, up) ==
    IF n = 0 THEN 0
    ELSE LET k == Len(prices)
             delta == prices[k] - prices[k - 1]
             move == IF up THEN (IF delta > 0 THEN delta ELSE 0)
                     ELSE (IF delta < 0 THEN -delta ELSE 0)
         IN  move + Moves(SubSeq(prices, 1, k - 1), n - 1, up)

\* SignalEngine.calculate_rsi: None without period + 1 rows, else
\* Some(100 - 100 / (1 + rs)) with rs = avg_gains / avg_losses over the last
\* `period` changes, as an exact fraction: 100 when there are no losses
\* (rs is inf), 0/0 for NaN when there are neither gains nor losses.
calculate_rsi(ph, symbol, period) ==
    IF ph[symbol] = None THEN None
    ELSE LET prices == ph[symbol][1].prices
             gains == Moves(prices, period, TRUE)
             losses == Moves(prices, period, FALSE)
         IN  IF Len(prices) < period + 1 THEN None
             ELSE IF gains + losses = 0 THEN Some([num |-> 0, den |-> 0])
             ELSE Some(Frac(100 * gains, gains + losses))

\* Strategy 4 of generate_signal: the vote it appends ("NONE": nothing).
\* `if rsi:` is false for None and for 0.0 and true for NaN, which compares
\* false with 30 and with 70.
rsi_vote(rsi) ==
    IF rsi = None THEN "NONE"
    ELSE IF rsi[1].den = 0 THEN "NONE"
    ELSE IF rsi[1].num = 0 THEN "NONE"
    ELSE IF rsi[1].num < 30 * rsi[1].den THEN "BUY"
    ELSE IF rsi[1].num > 70 * rsi[1].den THEN "SELL"
    ELSE "NONE"

\* ------------------------------------------------------------------------
\* State
\* ------------------------------------------------------------------------
VARIABLES
    positions, current_capital, peak_capital, max_drawdown,  \* RiskManager
    opens, closes, net_flow,        \* history of successful opens / closes
    paper_mode, paper_cash, paper_positions,                 \* OrderExecutor
    processed_signals, dca_enabled,                          \* TradingBot
    latest_prices,                  \* PriceStreamManager.latest_prices
    minute,                         \* the clock: int(time.time() / 60)
    pc, frame,                      \* SpecConc: each thread's position and locals
    failed_attempt_mutated,         \* observer: see Observe
    order_failed,                   \* observer: an order of the last handler run failed
    events,                         \* observer: the events of the last handler run
    dispatched,                     \* observer: signal id -> times it reached an _execute_ method
    summary,                        \* the get_portfolio_summary call in progress
    is_running,                     \* TradingBot.is_running (stop_event is set when FALSE)
    scheduler_running,              \* self.scheduler.running
    stream_running,                 \* the MQTT client's network loop is running
    history,                        \* a PriceHistory object
    added,                          \* observer: every entry given to history.add, in order
    price_histories,                \* SignalEngine.price_histories
    last_signal,                    \* observer: the last generate_signal call
    support_vote,                   \* observer: price, support and vote of Strategy 2 in that call
    rsi_call,                       \* observer: the RSI and the vote of Strategy 4 in that call
    mark                            \* observer: see NoMark

engineVars == <<positions, current_capital, peak_capital, max_drawdown,
                opens, closes, net_flow>>
executorVars == <<paper_mode, paper_cash, paper_positions>>
botVars == <<processed_signals, dca_enabled, latest_prices, minute>>
observerVars == <<failed_attempt_mutated, order_failed>>
threadVars == <<pc, frame>>
logVars == <<events, dispatched>>
stopVars == <<is_running, scheduler_running, stream_running>>
historyVars == <<history, added>>
signalVars == <<price_histories, last_signal, support_vote, rsi_call>>
otherVars == <<summary, stopVars, historyVars, signalVars, mark>>
vars == <<engineVars, executorVars, botVars, threadVars, observerVars, logVars,
          otherVars>>

RM == [positions |-> positions, current_capital |-> current_capital,
       peak_capital |-> peak_capital, max_drawdown |-> max_drawdown,
       opens |-> opens, closes |-> closes, net_flow |-> net_flow]

EX == [paper_mode |-> paper_mode, paper_cash |-> paper_cash,
       paper_positions |-> paper_positions]

\* The world a handler starts in, given the gateway's answers gw.
World(gw) == [rm |-> RM, ex |-> EX, gw |-> gw, more |-> FALSE,
              raised |-> FALSE, ret |-> FALSE,
              att |-> "none", calls |-> 0,
              processed |-> processed_signals, now |-> minute,
              events |-> <<>>, is_running |-> is_running,
              failed_attempt_mutated |-> FALSE, order_failed |-> FALSE]

SetRM(rm) ==
    /\ positions' = rm.positions
    /\ current_capital' = rm.current_capital
    /\ peak_capital' = rm.peak_capital
    /\ max_drawdown' = rm.max_drawdown
    /\ opens' = rm.opens
    /\ closes' = rm.closes
    /\ net_flow' = rm.net_flow

\* The state a handler leaves behind (clock, settings and price feed are
\* set by the action).
SetWorldCore(w) ==
    /\ SetRM(w.rm)
    /\ paper_cash' = w.ex.paper_cash
    /\ paper_positions' = w.ex.paper_positions
    /\ processed_signals' = w.processed
    /\ failed_attempt_mutated' = w.failed_attempt_mutated
    /\ order_failed' = w.order_failed
    /\ UNCHANGED <<paper_mode, dca_enabled, threadVars>>

\* ... without the log of the run
SetWorld(w) ==
    /\ SetWorldCore(w)
    /\ UNCHANGED <<logVars, minute, otherVars>>

\* The signal ids (<<symbol, signal_type, minute>>) dispatched in a run
DispatchedIds(evs, now) ==
    {<<evs[i][2], evs[i][3], now>> :
        i \in {j \in 1..Len(evs) : evs[j][1] = "dispatch"}}

CountDispatches(d, ids) ==
    [id \in DOMAIN d \cup ids |->
        (IF id \in DOMAIN d THEN d[id] ELSE 0) + (IF id \in ids THEN 1 ELSE 0)]

RECURSIVE SumOver(_, _)
SumOver(d, ids) ==
    IF ids = {} THEN 0
    ELSE LET id == CHOOSE x \in ids : TRUE
         IN  d[id] + SumOver(d, ids \ {id})

\* ... with the log of the run
SetWorldLog(w) ==
    /\ SetWorldCore(w)
    /\ events' = w.events
    /\ UNCHANGED <<dispatched, minute, otherVars>>


\* A direct call of one engine method: no order is attempted.
SetEngine(rm) ==
    \E w \in {[World(<<>>) EXCEPT !.rm = rm]} :
        /\ SetWorld(w)
        /\ UNCHANGED latest_prices

\* The worlds a handler H can end in, started with the gateway's answers
\* gw: one run for every sequence of answers to the orders it places.
RECURSIVE Run(_, _)
Run(H(_), gw) ==
    LET w == H(gw)
    IN  IF w.more THEN UNION {Run(H, gw \o <<a>>) : a \in Outcomes} ELSE {w}

paper_cash_init == 1500

\* The two threads that call the engine: the MQTT client's network thread
\* runs _on_price_update, the BackgroundScheduler's worker runs _dca_job.
Threads == {"tick", "sched"}

\* No get_portfolio_summary call in progress, none returned yet
NoSummary == [pc |-> "idle", total_pnl |-> 0, total_position_value |-> 0,
              result |-> None, snapshots |-> {}, interleaved |-> 0]

NoFrame == [op |-> "none", symbol |-> "none", quantity |-> 0, price |-> 0,
            stop_loss_price |-> 0, capital_read |-> 0, todo |-> <<>>]

\* The prices handed to the ledger so far: prices[s] is the last price a
\* position of s was constructed with or marked to (0: never), call is the
\* update_position_price call of the last step, None after any other step.
NoMark == [prices |-> [s \in Symbols |-> 0], call |-> None]

InitCommon ==
    /\ positions = <<>>
    /\ current_capital = initial_capital
    /\ peak_capital = initial_capital
    /\ max_drawdown = FracZero
    /\ opens = 0
    /\ closes = 0
    /\ net_flow = 0
    /\ paper_cash = paper_cash_init
    /\ paper_positions = [s \in Symbols |-> 0]
    /\ processed_signals = {}
    /\ latest_prices = [s \in Symbols |-> 0]
    /\ minute = 0
    /\ pc = [t \in Threads |-> "idle"]
    /\ frame = [t \in Threads |-> NoFrame]
    /\ failed_attempt_mutated = FALSE
    /\ order_failed = FALSE
    /\ events = <<>>
    /\ dispatched = <<>>
    /\ summary = NoSummary
    /\ is_running = TRUE
    /\ scheduler_running = TRUE
    /\ stream_running = TRUE
    /\ history = PriceHistory(test_max_size)
    /\ added = <<>>
    /\ price_histories = [s \in Symbols |-> None]
    /\ last_signal = None
    /\ support_vote = None
    /\ rsi_call = None
    /\ mark = NoMark

\* ------------------------------------------------------------------------
\* Spec: the engine driven through its public methods, one call after
\* another, against a live gateway that may answer anything.
\* ------------------------------------------------------------------------
Init ==
    /\ InitCommon
    /\ paper_mode = FALSE
    /\ dca_enabled = FALSE

\* Arguments of direct calls
Quantities == {100, 200}
OpenArgs == {<<None, None>>, <<None, Some(500)>>, <<Some(500), Some(400)>>}
TrailingPcts == {3, 5}

OpenPosition ==
    \E s \in Symbols, q \in Quantities, p \in TickPrices, a \in OpenArgs :
        \E rm2 \in {open_position(RM, s, q, p, a[1], a[2])} :
            /\ rm2.opens <= MaxTrades
            /\ SetEngine(rm2)

ClosePosition ==
    \E s \in Symbols, p \in TickPrices : SetEngine(close_position(RM, s, p))

UpdatePositionPrice ==
    \E s \in Symbols, p \in TickPrices : SetEngine(update_position_price(RM, s, p))

UpdateTrailingStop ==
    \E s \in Symbols, pct \in TrailingPcts : SetEngine(update_trailing_stop(RM, s, pct))

\* monitor_positions called directly; an exception it raises goes to the caller.
MonitorPositions ==
    \E w \in Run(LAMBDA gw : monitor_positions(World(gw)), <<>>) :
        /\ SetWorld(w)
        /\ UNCHANGED latest_prices

\* The bot's order-submitting methods, called with any symbol and price;
\* an exception they raise goes to the caller.
ExecuteBuy ==
    \E symbol \in Symbols, price \in TickPrices :
        \E w \in Run(LAMBDA gw : Observe(World(gw),
                                         _execute_buy(World(gw), symbol, price)),
                     <<>>) :
            /\ w.rm.opens <= MaxTrades
            /\ SetWorld(w)
            /\ UNCHANGED latest_prices

ExecuteSell ==
    \E symbol \in Symbols, price \in TickPrices :
        \E w \in Run(LAMBDA gw : Observe(World(gw),
                                         _execute_sell(World(gw), symbol, price)),
                     <<>>) :
            /\ SetWorld(w)
            /\ UNCHANGED latest_prices

ExecuteCutloss ==
    \E symbol \in Symbols, price \in TickPrices :
        \E w \in Run(LAMBDA gw : Observe(World(gw),
                                         _execute_cutloss(World(gw), symbol, price)),
                     <<>>) :
            /\ SetWorld(w)
            /\ UNCHANGED latest_prices

\* _dca_job run with any latest prices (0: no price data for the symbol).
DcaRun ==
    \E latest \in [BotSymbols -> TickPrices \cup {0}] :
        \E w \in Run(LAMBDA gw : _dca_job(World(gw), latest), <<>>) :
            /\ w.rm.opens <= MaxTrades
            /\ SetWorld(w)
            /\ UNCHANGED latest_prices

Next ==
    \/ OpenPosition
    \/ ClosePosition
    \/ UpdatePositionPrice
    \/ UpdateTrailingStop
    \/ MonitorPositions
    \/ ExecuteBuy
    \/ ExecuteSell
    \/ ExecuteCutloss
    \/ DcaRun

Spec == Init /\ [][Next]_vars

\* ------------------------------------------------------------------------
\* SpecBot: the running bot, its handlers executed one after another:
\* price ticks (_on_price_update), the DCA job and the portfolio summary job,
\* within one minute bucket.
\* ------------------------------------------------------------------------
MaxProcessed == 2

SignalInputs ==
    {[signal_type |-> "NONE", strength |-> "WEAK"],
     [signal_type |-> "HOLD", strength |-> "WEAK"],
     [signal_type |-> "CUTLOSS", strength |-> "STRONG"]}
    \cup [signal_type : {"BUY", "SELL"}, strength : {"WEAK", "STRONG"}]

\* A signal that _process_signal may dispatch to an _execute_ method.
Dispatchable(sig) == sig.signal_type \notin {"NONE", "HOLD"} /\ sig.strength # "WEAK"

InitBot ==
    /\ InitCommon
    /\ paper_mode = FALSE
    /\ dca_enabled = TRUE

\* _on_message stores the tick in latest_prices, then calls _on_price_update.
OnPriceUpdate ==
    \E symbol \in BotSymbols, price \in TickPrices, sig \in SignalInputs :
        \E w \in Run(LAMBDA gw : _on_price_update(World(gw), symbol, price, sig),
                     <<>>) :
            /\ w.rm.opens <= MaxTrades
            /\ Cardinality(w.processed) <= MaxProcessed
            /\ latest_prices' = [latest_prices EXCEPT ![symbol] = price]
            /\ SetWorld(w)

DcaJob ==
    /\ dca_enabled
    /\ \E w \in Run(LAMBDA gw : _dca_job(World(gw), latest_prices), <<>>) :
            /\ w.rm.opens <= MaxTrades
            /\ SetWorld(w)
            /\ UNCHANGED latest_prices

PortfolioSummaryJob ==
    /\ get_portfolio_summary(RM).num_positions = Len(positions)
    /\ UNCHANGED vars

NextBot ==
    \/ OnPriceUpdate
    \/ DcaJob
    \/ PortfolioSummaryJob

SpecBot == InitBot /\ [][NextBot]_vars

\* ------------------------------------------------------------------------
\* SpecConc: the tick thread and the scheduler thread running at the same
\* time, one statement of the engine per step.  RiskManager holds no lock,
\* so any statement of one thread may follow any statement of the other.
\* A handler that returns without touching the engine leaves the state as
\* it is and is not a step.
\* ------------------------------------------------------------------------
\* A thread starts a buy only while fewer than MaxConcOpens opens are done.
MaxConcOpens == 1

InitConc ==
    /\ InitCommon
    /\ paper_mode = FALSE
    /\ dca_enabled = TRUE

Goto(t, loc, fr) ==
    /\ pc' = [pc EXCEPT ![t] = loc]
    /\ frame' = [frame EXCEPT ![t] = fr]

\* The call of thread t is over: the tick handler returns, the DCA job goes
\* on with its next symbol.
Done(t) ==
    IF t = "sched"
    THEN Goto(t, "dca_next", [NoFrame EXCEPT !.todo = Tail(frame[t].todo)])
    ELSE Goto(t, "idle", NoFrame)

ConcRest == UNCHANGED <<executorVars, botVars, observerVars, logVars, otherVars>>

\* _execute_buy up to its place_order call
TickBuy ==
    /\ pc["tick"] = "idle"
    /\ opens < MaxConcOpens
    /\ \E symbol \in BotSymbols, entry_price \in TickPrices :
           LET stop_loss_price == calculate_stop_loss_price(entry_price, "BUY")
               quantity == calculate_position_size(RM, entry_price, stop_loss_price)
           IN  /\ quantity # 0
               /\ can_open_position(RM, symbol, Value(quantity, entry_price)) = "OK"
               /\ Goto("tick", "order",
                       [NoFrame EXCEPT !.op = "open", !.symbol = symbol,
                                       !.quantity = quantity, !.price = entry_price,
                                       !.stop_loss_price = stop_loss_price])
    /\ UNCHANGED engineVars
    /\ ConcRest

\* _execute_sell up to its place_order call
TickSell ==
    /\ pc["tick"] = "idle"
    /\ \E i \in 1..Len(positions), exit_price \in TickPrices :
           Goto("tick", "order",
                [NoFrame EXCEPT !.op = "close", !.symbol = positions[i].symbol,
                                !.quantity = positions[i].quantity,
                                !.price = exit_price])
    /\ UNCHANGED engineVars
    /\ ConcRest

\* update_position_price, the first statement of _on_price_update
TickMark ==
    /\ pc["tick"] = "idle"
    /\ \E symbol \in BotSymbols, price \in TickPrices :
           SetRM(update_position_price(RM, symbol, price))
    /\ UNCHANGED threadVars
    /\ ConcRest

\* The scheduler fires _dca_job
DcaStart ==
    /\ pc["sched"] = "idle"
    /\ dca_enabled
    /\ opens < MaxConcOpens
    /\ Goto("sched", "dca_next", [NoFrame EXCEPT !.todo = dca_symbols])
    /\ UNCHANGED engineVars
    /\ ConcRest

\* One iteration of the loop of _dca_job up to its place_order call, with
\* any latest price (0: no price data)
DcaNext ==
    /\ pc["sched"] = "dca_next"
    /\ IF frame["sched"].todo = <<>> THEN Goto("sched", "idle", NoFrame)
       ELSE \E entry_price \in TickPrices \cup {0} :
               LET symbol == Head(frame["sched"].todo)
                   quantity == (IntDiv(dca_amount * 100, entry_price) \div LotSize)
                               * LotSize
               IN  IF \/ entry_price = 0
                      \/ quantity = 0
                      \/ can_open_position(RM, symbol, Value(quantity, entry_price)) # "OK"
                   THEN Done("sched")
                   ELSE Goto("sched", "order",
                             [frame["sched"] EXCEPT
                                 !.op = "open", !.symbol = symbol,
                                 !.quantity = quantity, !.price = entry_price,
                                 !.stop_loss_price =
                                     calculate_stop_loss_price(entry_price, "BUY")])
    /\ UNCHANGED engineVars
    /\ ConcRest

\* place_order returns: accepted, the caller enters open_position or
\* close_position; rejected or failed, the call is over.
PlaceOrder(t) ==
    /\ pc[t] = "order"
    /\ \E response \in Outcomes :
           IF response = "accepted"
           THEN Goto(t, IF frame[t].op = "open" THEN "open_check" ELSE "close_check",
                     frame[t])
           ELSE Done(t)
    /\ UNCHANGED engineVars
    /\ ConcRest

\* open_position: the admission check
OpenCheck(t) ==
    /\ pc[t] = "open_check"
    /\ IF can_open_position(RM, frame[t].symbol,
                            Value(frame[t].quantity, frame[t].price)) # "OK"
       THEN Done(t)
       ELSE Goto(t, "open_insert", frame[t])
    /\ UNCHANGED engineVars
    /\ ConcRest

\* open_position: self.positions[symbol] = position
OpenInsert(t) ==
    /\ pc[t] = "open_insert"
    /\ positions' = Put(positions,
                        NewPosition(frame[t].symbol, frame[t].quantity, frame[t].price,
                                    frame[t].stop_loss_price, None))
    /\ Goto(t, "open_debit_read", frame[t])
    /\ UNCHANGED <<current_capital, peak_capital, max_drawdown, opens, closes, net_flow>>
    /\ ConcRest

\* open_position: self.current_capital -= position_value, the read
OpenDebitRead(t) ==
    /\ pc[t] = "open_debit_read"
    /\ Goto(t, "open_debit_write", [frame[t] EXCEPT !.capital_read = current_capital])
    /\ UNCHANGED engineVars
    /\ ConcRest

\* open_position: self.current_capital -= position_value, the write
OpenDebitWrite(t) ==
    /\ pc[t] = "open_debit_write"
    /\ current_capital' =
           frame[t].capital_read - Value(frame[t].quantity, frame[t].price)
    /\ opens' = opens + 1
    /\ net_flow' = net_flow - Value(frame[t].quantity, frame[t].price)
    /\ Done(t)
    /\ UNCHANGED <<positions, peak_capital, max_drawdown, closes>>
    /\ ConcRest

\* close_position: the test for the symbol
CloseCheck(t) ==
    /\ pc[t] = "close_check"
    /\ IF Has(positions, frame[t].symbol)
       THEN Goto(t, "close_credit_read", frame[t])
       ELSE Done(t)
    /\ UNCHANGED engineVars
    /\ ConcRest

\* close_position: self.current_capital += exit_value, the read
CloseCreditRead(t) ==
    /\ pc[t] = "close_credit_read"
    /\ Goto(t, "close_credit_write", [frame[t] EXCEPT !.capital_read = current_capital])
    /\ UNCHANGED engineVars
    /\ ConcRest

\* close_position: self.current_capital += exit_value, the write, then the
\* peak / drawdown update and del self.positions[symbol]
CloseCreditWrite(t) ==
    /\ pc[t] = "close_credit_write"
    /\ LET exit_value == Value(frame[t].quantity, frame[t].price)
           cap == frame[t].capital_read + exit_value
           newHigh == cap > peak_capital
           drawdown == Frac(peak_capital - cap, peak_capital)
       IN  /\ current_capital' = cap
           /\ peak_capital' = IF newHigh THEN cap ELSE peak_capital
           /\ max_drawdown' = IF newHigh THEN max_drawdown
                              ELSE FracMax(max_drawdown, drawdown)
           /\ net_flow' = net_flow + exit_value
    /\ positions' = Del(positions, frame[t].symbol)
    /\ closes' = closes + 1
    /\ Done(t)
    /\ UNCHANGED opens
    /\ ConcRest

NextConc ==
    \/ TickBuy
    \/ TickSell
    \/ TickMark
    \/ DcaStart
    \/ DcaNext
    \/ \E t \in Threads : PlaceOrder(t)
    \/ \E t \in Threads : OpenCheck(t)
    \/ \E t \in Threads : OpenInsert(t)
    \/ \E t \in Threads : OpenDebitRead(t)
    \/ \E t \in Threads : OpenDebitWrite(t)
    \/ CloseCheck("tick")
    \/ CloseCreditRead("tick")
    \/ CloseCreditWrite("tick")

SpecConc == InitConc /\ [][NextConc]_vars

\* ------------------------------------------------------------------------
\* SpecMonitor: positions opened by direct open_position calls (which may
\* carry a take-profit price, as the bot's own calls never do), marked by
\* update_position_price and watched by monitor_positions against a live
\* gateway; the events of each monitor pass are kept.
\* ------------------------------------------------------------------------
MonitorPass ==
    \E w \in Run(LAMBDA gw : monitor_positions(World(gw)), <<>>) :
        /\ SetWorldLog(w)
        /\ UNCHANGED latest_prices

NextMonitor ==
    \/ OpenPosition
    \/ UpdatePositionPrice
    \/ MonitorPass

SpecMonitor == Init /\ [][NextMonitor]_vars

\* ------------------------------------------------------------------------
\* SpecDedup: the price ticks of one symbol over consecutive minute
\* buckets, with the number of times each signal id reached an _execute_
\* method.
\* ------------------------------------------------------------------------
\* At most MaxDispatch signals are dispatched ...
MaxDispatch == 2
\* ... and the clock stops at minute MaxMinute.
MaxMinute == 1

DedupTick ==
    \E symbol \in {"VCB"}, price \in TickPrices, sig \in SignalInputs :
        \E w \in Run(LAMBDA gw : _on_price_update(World(gw), symbol, price, sig),
                     <<>>) :
            \E d \in {CountDispatches(dispatched, DispatchedIds(w.events, w.now))} :
                /\ w.rm.opens <= MaxTrades
                /\ SumOver(d, DOMAIN d) <= MaxDispatch
                /\ latest_prices' = [latest_prices EXCEPT ![symbol] = price]
                /\ SetWorldCore(w)
                /\ events' = w.events
                /\ dispatched' = d
                /\ UNCHANGED <<minute, otherVars>>

\* time.time() passes into the next minute bucket; no handler runs, so
\* the step has an empty log
NextMinute ==
    /\ minute < MaxMinute
    /\ minute' = minute + 1
    /\ events' = <<>>
    /\ UNCHANGED <<engineVars, executorVars, processed_signals, dca_enabled,
                   latest_prices, threadVars, observerVars, dispatched, otherVars>>

NextDedup ==
    \/ DedupTick
    \/ NextMinute

SpecDedup == InitBot /\ [][NextDedup]_vars

\* ------------------------------------------------------------------------
\* SpecDash: the bot in paper mode, where the executor itself keeps the
\* book of the orders it accepted (paper_cash, paper_positions), together
\* with the dashboard's place-order route.
\* ------------------------------------------------------------------------
\* The dashboard route is called while the executor's book and the engine's
\* positions differ by at most MaxUnrecordedLots lots in all.
MaxUnrecordedLots == 1

EngineQuantity(rm, s) ==
    IF Has(rm.positions, s) THEN Get(rm.positions, s).quantity ELSE 0

RECURSIVE Unrecorded(_, _)
Unrecorded(w, symbols) ==
    IF symbols = {} THEN 0
    ELSE LET s == CHOOSE x \in symbols : TRUE
         IN  Abs(w.ex.paper_positions[s] - EngineQuantity(w.rm, s))
                 + Unrecorded(w, symbols \ {s})

InitDash ==
    /\ InitCommon
    /\ paper_mode = TRUE
    /\ dca_enabled = TRUE

\* POST /api/v1/orders/place: order_executor.place_order and nothing else.
ManualOrder ==
    \E symbol \in Symbols, side \in {"BUY", "SELL"},
       quantity \in {100}, price \in {400} :
        \E w \in Run(LAMBDA gw : place_order(World(gw), symbol, side, quantity, price,
                                             "LIMIT"), <<>>) :
            /\ Unrecorded(w, Symbols) <= MaxUnrecordedLots * LotSize
            /\ SetWorld(w)
            /\ UNCHANGED latest_prices

NextDash ==
    \/ OnPriceUpdate
    \/ DcaJob
    \/ ManualOrder

SpecDash == InitDash /\ [][NextDash]_vars

\* ------------------------------------------------------------------------
\* SpecTick: the price ticks of the running bot in live mode, one
\* _on_price_update after another, the events of each tick kept.
\* ------------------------------------------------------------------------
TickLogged ==
    \E symbol \in BotSymbols, price \in TickPrices, sig \in SignalInputs :
        \E w \in Run(LAMBDA gw : _on_price_update(World(gw), symbol, price, sig),
                     <<>>) :
            /\ w.rm.opens <= MaxTrades
            /\ Cardinality(w.processed) <= MaxProcessed
            /\ latest_prices' = [latest_prices EXCEPT ![symbol] = price]
            /\ SetWorldLog(w)

NextTick ==
    \/ TickLogged

SpecTick == InitBot /\ [][NextTick]_vars

\* ------------------------------------------------------------------------
\* SpecSummary: the scheduler thread inside get_portfolio_summary, one
\* statement per step, while the tick thread calls the engine (each call of
\* the tick thread taken as one step).
\* ------------------------------------------------------------------------
\* At most MaxInterleaved engine calls are made during one summary call.
MaxInterleaved == 1

\* What the summary would be if it were taken in engine state rm at once
Snapshot(rm) ==
    LET s == get_portfolio_summary(rm)
    IN  [current_capital |-> s.current_capital,
         total_position_value |-> s.total_position_value,
         total_value |-> s.total_value,
         total_pnl |-> s.total_pnl,
         num_positions |-> s.num_positions]

\* total_pnl = sum(pos.pnl for pos in self.positions.values())
SummaryPnl ==
    /\ summary.pc \in {"idle", "returned"}
    /\ summary' = [NoSummary EXCEPT !.pc = "pnl",
                                    !.total_pnl = get_portfolio_summary(RM).total_pnl,
                                    !.snapshots = {Snapshot(RM)}]
    /\ UNCHANGED <<engineVars, executorVars, botVars, threadVars, observerVars,
                   logVars, stopVars, historyVars, signalVars, mark>>

\* total_position_value = sum(pos.quantity * pos.current_price ...)
SummaryValue ==
    /\ summary.pc = "pnl"
    /\ summary' = [summary EXCEPT !.pc = "value",
                       !.total_position_value =
                           get_portfolio_summary(RM).total_position_value]
    /\ UNCHANGED <<engineVars, executorVars, botVars, threadVars, observerVars,
                   logVars, stopVars, historyVars, signalVars, mark>>

\* return {...}: current_capital and len(self.positions) are read here
SummaryReturn ==
    /\ summary.pc = "value"
    /\ summary' = [summary EXCEPT !.pc = "returned",
                       !.result = Some(
                           [current_capital |-> current_capital,
                            total_position_value |-> summary.total_position_value,
                            total_value |-> current_capital
                                               + summary.total_position_value,
                            total_pnl |-> summary.total_pnl,
                            num_positions |-> Len(positions)])]
    /\ UNCHANGED <<engineVars, executorVars, botVars, threadVars, observerVars,
                   logVars, stopVars, historyVars, signalVars, mark>>

\* An engine call of the tick thread, seen by a summary call in progress
DuringSummary(rm) ==
    /\ summary.pc \in {"pnl", "value"} => summary.interleaved < MaxInterleaved
    /\ SetWorldCore([World(<<>>) EXCEPT !.rm = rm])
    /\ summary' = IF summary.pc \in {"pnl", "value"}
                  THEN [summary EXCEPT !.snapshots = @ \cup {Snapshot(rm)},
                                       !.interleaved = @ + 1]
                  ELSE summary
    /\ UNCHANGED <<logVars, minute, latest_prices, stopVars, historyVars,
                   signalVars, mark>>

TickOpen ==
    \E s \in Symbols, q \in Quantities, p \in TickPrices :
        \E rm2 \in {open_position(RM, s, q, p, None, None)} :
            /\ rm2.opens <= MaxTrades
            /\ DuringSummary(rm2)

TickClose ==
    \E s \in Symbols, p \in TickPrices : DuringSummary(close_position(RM, s, p))

TickMarkPrice ==
    \E s \in Symbols, p \in TickPrices :
        DuringSummary(update_position_price(RM, s, p))

NextSummary ==
    \/ SummaryPnl
    \/ SummaryValue
    \/ SummaryReturn
    \/ TickOpen
    \/ TickClose
    \/ TickMarkPrice

SpecSummary == Init /\ [][NextSummary]_vars

\* ------------------------------------------------------------------------
\* SpecStop: the started bot (ticks on the MQTT thread, the DCA job on the
\* scheduler) and stop() running on the main thread, one statement group
\* of stop() per step; the events of each handler run are kept.
\* ------------------------------------------------------------------------
\* A tick is delivered as long as the network loop runs.
TickWhileStopping ==
    /\ stream_running
    /\ \E symbol \in {"VCB"}, price \in TickPrices,
          sig \in {[signal_type |-> "NONE", strength |-> "WEAK"],
                   [signal_type |-> "BUY", strength |-> "STRONG"],
                   [signal_type |-> "SELL", strength |-> "STRONG"]} :
        \E w \in Run(LAMBDA gw : _on_price_update(World(gw), symbol, price, sig),
                     <<>>) :
            /\ w.rm.opens <= MaxTrades
            /\ Cardinality(w.processed) <= MaxProcessed
            /\ latest_prices' = [latest_prices EXCEPT ![symbol] = price]
            /\ SetWorldCore(w)
            /\ events' = w.events
            /\ UNCHANGED <<dispatched, minute, summary, stopVars, historyVars,
                           signalVars, mark>>

\* The scheduler starts the DCA job as long as it has not been shut down.
DcaWhileStopping ==
    /\ scheduler_running
    /\ dca_enabled
    /\ \E w \in Run(LAMBDA gw : _dca_job(World(gw), latest_prices), <<>>) :
            /\ w.rm.opens <= MaxTrades
            /\ SetWorldCore(w)
            /\ events' = w.events
            /\ UNCHANGED <<dispatched, minute, summary, stopVars, latest_prices,
                           historyVars, signalVars, mark>>

StopRest ==
    UNCHANGED <<engineVars, executorVars, botVars, threadVars, observerVars,
                logVars, summary, historyVars, signalVars, mark>>

\* stop(): self.is_running = False; self.stop_event.set()
StopSignal ==
    /\ is_running
    /\ is_running' = FALSE
    /\ UNCHANGED <<scheduler_running, stream_running>>
    /\ StopRest

\* stop(): self.scheduler.shutdown()
StopScheduler ==
    /\ ~is_running
    /\ scheduler_running
    /\ scheduler_running' = FALSE
    /\ UNCHANGED <<is_running, stream_running>>
    /\ StopRest

\* stop(): unsubscribe, then price_stream_manager.stop() (loop_stop, disconnect)
StopStream ==
    /\ ~is_running
    /\ ~scheduler_running
    /\ stream_running
    /\ stream_running' = FALSE
    /\ UNCHANGED <<is_running, scheduler_running>>
    /\ StopRest

NextStop ==
    \/ TickWhileStopping
    \/ DcaWhileStopping
    \/ StopSignal
    \/ StopScheduler
    \/ StopStream

SpecStop == InitBot /\ [][NextStop]_vars

\* ------------------------------------------------------------------------
\* SpecHistory: one PriceHistory(max_size = test_max_size) and a caller
\* adding price points to it, MaxAdds at most.
\* ------------------------------------------------------------------------
MaxAdds == 5


\* history.add(price, volume, high, low, timestamp); the clock reads the
\* number of adds made so far
AddPoint ==
    /\ Len(added) < MaxAdds
    /\ \E price \in {10000, 10100}, volume \in {1000, 2000},
          timestamp \in {None, Some(0)} :
        LET high == price + 100
            low == price - 100
            now == Len(added) + 1
        IN  /\ history' = HistoryAdd(history, price, volume, high, low, timestamp, now)
            /\ added' = Append(added,
                   [price |-> price, volume |-> volume, high |-> high, low |-> low,
                    timestamp |-> IF timestamp = None THEN now ELSE timestamp[1]])
    /\ UNCHANGED <<engineVars, executorVars, botVars, threadVars, observerVars,
                   logVars, summary, stopVars, signalVars, mark>>

NextHistory ==
    \/ AddPoint

SpecHistory == Init /\ [][NextHistory]_vars

\* ------------------------------------------------------------------------
\* SpecSignal: the ticks of one symbol at one price from the first tick
\* on, each through update_price, mark, monitor and generate_signal, the
\* DCA job beside them, and direct generate_signal calls for any symbol.
\* ------------------------------------------------------------------------
\* The stream delivers MaxTicks ticks at most.
MaxTicks == 31

SignalTickSymbol == "VCB"

\* The number of points recorded for a symbol (0: not in price_histories)
Points(ph, symbol) == IF ph[symbol] = None THEN 0 ELSE HistoryLen(ph[symbol][1])

\* What is kept of a generate_signal call: the symbol, its recorded points,
\* the votes collected (None when the call returned before collecting) and
\* the signal returned
Called(ph, symbol, votes, sig) ==
    Some([symbol |-> symbol, points |-> Points(ph, symbol),
          votes |-> IF sig = NoSignal THEN None ELSE Some(votes),
          signal |-> sig])

SignalTick ==
    /\ Points(price_histories, SignalTickSymbol) < MaxTicks
    /\ \E price \in {400}, votes \in Votes :
        \E ph \in {update_price(price_histories, SignalTickSymbol, price, 1000,
                                price, price,
                                Points(price_histories, SignalTickSymbol) + 1)} :
            \E sig \in {generate_signal(ph, SignalTickSymbol, votes)} :
                \E w \in Run(LAMBDA gw : _on_price_update(World(gw), SignalTickSymbol,
                                                          price, sig), <<>>) :
                    /\ w.rm.opens <= MaxTrades
                    /\ latest_prices' = [latest_prices EXCEPT
                                            ![SignalTickSymbol] = price]
                    /\ SetWorldCore(w)
                    /\ events' = w.events
                    /\ price_histories' = ph
                    /\ last_signal' = Called(ph, SignalTickSymbol, votes, sig)
                    /\ UNCHANGED <<dispatched, minute, summary, stopVars, historyVars,
                                   support_vote, rsi_call, mark>>

\* generate_signal called for any symbol (dashboard routes, tests)
QuerySignal ==
    /\ \E symbol \in Symbols, votes \in Votes :
           last_signal' = Called(price_histories, symbol, votes,
                                 generate_signal(price_histories, symbol, votes))
    /\ UNCHANGED <<engineVars, executorVars, botVars, threadVars, observerVars,
                   logVars, summary, stopVars, historyVars, price_histories,
                   support_vote, rsi_call, mark>>

NextSignal ==
    \/ SignalTick
    \/ DcaJob
    \/ QuerySignal

SpecSignal == InitBot /\ [][NextSignal]_vars

\* ------------------------------------------------------------------------
\* SpecMark: the ledger's methods called directly, with the prices they
\* were given recorded in mark.
\* ------------------------------------------------------------------------
MarkRest ==
    UNCHANGED <<executorVars, botVars, threadVars, observerVars, logVars,
                summary, stopVars, historyVars, signalVars>>

MarkOpen ==
    \E s \in BotSymbols, q \in {100}, p \in TickPrices,
       a \in {<<None, None>>, <<None, Some(500)>>} :
        \E rm2 \in {open_position(RM, s, q, p, a[1], a[2])} :
            /\ rm2.opens <= MaxTrades
            /\ SetRM(rm2)
            /\ mark' = [prices |-> IF rm2.opens > opens
                                   THEN [mark.prices EXCEPT ![s] = p]
                                   ELSE mark.prices,
                        call |-> None]
            /\ MarkRest

MarkPrice ==
    \E s \in Symbols, p \in {300, 500} :
        /\ SetRM(update_position_price(RM, s, p))
        /\ mark' = [prices |-> IF Has(positions, s)
                               THEN [mark.prices EXCEPT ![s] = p]
                               ELSE mark.prices,
                    call |-> Some(<<s, p>>)]
        /\ MarkRest

MarkTrailingStop ==
    \E s \in Symbols, pct \in TrailingPcts :
        /\ SetRM(update_trailing_stop(RM, s, pct))
        /\ mark' = [mark EXCEPT !.call = None]
        /\ MarkRest

MarkClose ==
    \E s \in Symbols, p \in {300, 500} :
        /\ SetRM(close_position(RM, s, p))
        /\ mark' = [mark EXCEPT !.call = None]
        /\ MarkRest

NextMark ==
    \/ MarkOpen
    \/ MarkPrice
    \/ MarkTrailingStop
    \/ MarkClose

SpecMark == Init /\ [][NextMark]_vars

\* ------------------------------------------------------------------------
\* SpecDrawdown: the ledger's methods called directly, every close at an
\* exit price at or above the position's entry price.
\* ------------------------------------------------------------------------
CloseWithoutLoss ==
    \E s \in Symbols, p \in TickPrices :
        /\ Has(positions, s)
        /\ p >= Get(positions, s).avg_entry_price
        /\ SetEngine(close_position(RM, s, p))

NextDrawdown ==
    \/ OpenPosition
    \/ UpdatePositionPrice
    \/ CloseWithoutLoss

SpecDrawdown == Init /\ [][NextDrawdown]_vars

\* ------------------------------------------------------------------------
\* SpecTrade: the running bot in live mode with the DCA job between the
\* ticks, every tick at the price 4.00 and carrying a STRONG BUY, SELL or
\* CUTLOSS signal; events is the log of the last handler run, tick or DCA.
\* ------------------------------------------------------------------------
TradeTick ==
    \E symbol \in BotSymbols, price \in {400},
       sig \in [signal_type : {"BUY", "SELL", "CUTLOSS"}, strength : {"STRONG"}] :
        \E w \in Run(LAMBDA gw : _on_price_update(World(gw), symbol, price, sig),
                     <<>>) :
            /\ w.rm.opens <= MaxTrades
            /\ Cardinality(w.processed) <= MaxProcessed
            /\ latest_prices' = [latest_prices EXCEPT ![symbol] = price]
            /\ SetWorldLog(w)

TradeDca ==
    /\ dca_enabled
    /\ \E w \in Run(LAMBDA gw : _dca_job(World(gw), latest_prices), <<>>) :
            /\ w.rm.opens <= MaxTrades
            /\ SetWorldLog(w)
            /\ UNCHANGED latest_prices

NextTrade ==
    \/ TradeTick
    \/ TradeDca

SpecTrade == InitBot /\ [][NextTrade]_vars

\* ------------------------------------------------------------------------
\* SpecSupport: update_price calls that build one symbol's history at one
\* price, and generate_signal calls for that symbol at prices around the
\* support level, the other five strategies voting in every combination.
\* ------------------------------------------------------------------------
\* signal_engine.update_price(symbol, price, volume, high, low)
UpdatePrice ==
    /\ Points(price_histories, SignalTickSymbol) < MaxTicks
    /\ \E price \in {10000} :
           price_histories' = update_price(price_histories, SignalTickSymbol, price,
                                           1000, price, price,
                                           Points(price_histories, SignalTickSymbol) + 1)
    /\ UNCHANGED <<engineVars, executorVars, botVars, threadVars, observerVars,
                   logVars, summary, stopVars, historyVars, last_signal,
                   support_vote, rsi_call, mark>>

\* signal_engine.generate_signal(symbol, current_price): Strategy 2 votes
\* from the price and the detected support, `others` are the votes of
\* strategies 1 and 3 to 6
SupportQuery ==
    /\ \E current_price \in {9700, 9800, 9900, 10000, 10020, 10100}, others \in Votes :
        LET support == detect_support(price_histories, SignalTickSymbol, support_lookback)
            vote == support_resistance_vote(current_price, support)
            votes == [others EXCEPT !.buy = @ + (IF vote = "BUY" THEN 1 ELSE 0),
                                    !.sell = @ + (IF vote = "SELL" THEN 1 ELSE 0)]
            sig == generate_signal(price_histories, SignalTickSymbol, votes)
        IN  /\ last_signal' = Called(price_histories, SignalTickSymbol, votes, sig)
            /\ support_vote' = IF sig = NoSignal THEN None
                               ELSE Some([price |-> current_price, support |-> support,
                                          vote |-> vote])
    /\ UNCHANGED <<engineVars, executorVars, botVars, threadVars, observerVars,
                   logVars, summary, stopVars, historyVars, price_histories,
                   rsi_call, mark>>

NextSupport ==
    \/ UpdatePrice
    \/ SupportQuery

SpecSupport == InitBot /\ [][NextSupport]_vars

\* ------------------------------------------------------------------------
\* SpecPaper: the running bot in paper mode, its price ticks and DCA runs
\* executed one after another and nothing else placing orders.
\* ------------------------------------------------------------------------
NextPaper ==
    \/ OnPriceUpdate
    \/ DcaJob

SpecPaper == InitDash /\ [][NextPaper]_vars

\* ------------------------------------------------------------------------
\* SpecSlots: the engine called directly with one-lot positions cheap
\* enough that cash allows more of them than max_positions, MaxSlotOpens
\* successful opens at most.
\* ------------------------------------------------------------------------
MaxSlotOpens == 3

OpenSlot ==
    \E s \in Symbols, p \in TickPrices :
        \E rm2 \in {open_position(RM, s, LotSize, p, None, None)} :
            /\ rm2.opens <= MaxSlotOpens
            /\ SetEngine(rm2)

NextSlots ==
    \/ OpenSlot
    \/ ClosePosition
    \/ UpdatePositionPrice
    \/ MonitorPositions

SpecSlots == Init /\ [][NextSlots]_vars

\* ------------------------------------------------------------------------
\* SpecProfit: the running bot in live mode, the ticks of one symbol with
\* dispatched signals and DCA runs one after another; of each run's log
\* only the closes and the orders placed by check_take_profit are kept.
\* ------------------------------------------------------------------------
\* The closes of a run and the orders its check_take_profit calls placed
Kept(evs) ==
    LET keep(i) == \/ evs[i][1] = "close"
                   \/ /\ i > 1
                      /\ evs[i][1] = "submit"
                      /\ evs[i - 1][1] = "check_take_profit"
        numbered == [i \in 1..Len(evs) |-> <<i, evs[i]>>]
        kept == SelectSeq(numbered, LAMBDA e : keep(e[1]))
    IN  [i \in 1..Len(kept) |-> kept[i][2]]

ProfitTick ==
    \E symbol \in {"VCB"}, price \in TickPrices,
       sig \in [signal_type : {"BUY", "SELL", "CUTLOSS", "HOLD"}, strength : {"STRONG"}] :
        \E w \in Run(LAMBDA gw : _on_price_update(World(gw), symbol, price, sig),
                     <<>>) :
            /\ w.rm.opens <= MaxTrades
            /\ Cardinality(w.processed) <= MaxProcessed
            /\ latest_prices' = [latest_prices EXCEPT ![symbol] = price]
            /\ SetWorldCore(w)
            /\ events' = Kept(w.events)
            /\ UNCHANGED <<dispatched, minute, otherVars>>

ProfitDca ==
    /\ dca_enabled
    /\ \E w \in Run(LAMBDA gw : _dca_job(World(gw), latest_prices), <<>>) :
            /\ w.rm.opens <= MaxTrades
            /\ SetWorldCore(w)
            /\ events' = Kept(w.events)
            /\ UNCHANGED <<latest_prices, dispatched, minute, otherVars>>

NextProfit ==
    \/ ProfitTick
    \/ ProfitDca

SpecProfit == InitBot /\ [][NextProfit]_vars

\* ------------------------------------------------------------------------
\* SpecRsi: update_price calls for one symbol whose price falls one step
\* per tick and, from some tick on, rises one step per tick, and
\* generate_signal calls for that symbol at its last price.
\* ------------------------------------------------------------------------
\* The price column of a symbol's history (empty: not in price_histories)
PricesOf(ph, symbol) == IF ph[symbol] = None THEN <<>> ELSE ph[symbol][1].prices

\* The prices the stream may deliver next: the first is 10000; a column
\* that has only fallen may fall again; every column may rise.
TrendPrices(prices) ==
    IF prices = <<>> THEN {10000}
    ELSE LET k == Len(prices)
         IN  {prices[k] + 100} \cup
             (IF \A i \in 2..k : prices[i] < prices[i - 1] THEN {prices[k] - 100} ELSE {})

TrendTick ==
    /\ Points(price_histories, SignalTickSymbol) < MaxTicks
    /\ \E price \in TrendPrices(PricesOf(price_histories, SignalTickSymbol)) :
           price_histories' = update_price(price_histories, SignalTickSymbol, price,
                                           1000, price, price,
                                           Points(price_histories, SignalTickSymbol) + 1)
    /\ UNCHANGED <<engineVars, executorVars, botVars, threadVars, observerVars,
                   logVars, summary, stopVars, historyVars, last_signal,
                   support_vote, rsi_call, mark>>

\* signal_engine.generate_signal(symbol, current_price): Strategy 4 votes
\* from calculate_rsi, `others` are the votes of the other five strategies
RsiQuery ==
    /\ PricesOf(price_histories, SignalTickSymbol) # <<>>
    /\ \E others \in [buy : 0..1, sell : 0..1, cutloss : {0}] :
        LET rsi == calculate_rsi(price_histories, SignalTickSymbol, rsi_period)
            vote == rsi_vote(rsi)
            votes == [others EXCEPT !.buy = @ + (IF vote = "BUY" THEN 1 ELSE 0),
                                    !.sell = @ + (IF vote = "SELL" THEN 1 ELSE 0)]
            sig == generate_signal(price_histories, SignalTickSymbol, votes)
        IN  /\ last_signal' = Called(price_histories, SignalTickSymbol, votes, sig)
            /\ rsi_call' = IF sig = NoSignal THEN None
                           ELSE Some([rsi |-> rsi, vote |-> vote])
    /\ UNCHANGED <<engineVars, executorVars, botVars, threadVars, observerVars,
                   logVars, summary, stopVars, historyVars, price_histories,
                   support_vote, mark>>

NextRsi ==
    \/ TrendTick
    \/ RsiQuery

SpecRsi == InitBot /\ [][NextRsi]_vars

\* ------------------------------------------------------------------------
\* SpecPrune: price ticks of one symbol with a clock that moves on by the
\* hour, up to minute bucket MaxPruneMinute.
\* ------------------------------------------------------------------------
MaxPruneMinute == 61

\* time.time() passes into a later minute bucket; no handler runs, so the
\* step has an empty log
PruneClock ==
    /\ \E m \in {59, 60, MaxPruneMinute} :
           /\ m > minute
           /\ minute' = m
    /\ events' = <<>>
    /\ UNCHANGED <<engineVars, executorVars, processed_signals, dca_enabled,
                   latest_prices, threadVars, observerVars, dispatched, otherVars>>

\* One price tick of VCB at the higher tick price, with its log
PruneTick ==
    \E symbol \in {"VCB"}, price \in {500}, sig \in SignalInputs :
        \E w \in Run(LAMBDA gw : _on_price_update(World(gw), symbol, price, sig),
                     <<>>) :
            \E d \in {CountDispatches(dispatched, DispatchedIds(w.events, w.now))} :
                /\ w.rm.opens <= MaxTrades
                /\ SumOver(d, DOMAIN d) <= MaxDispatch
                /\ latest_prices' = [latest_prices EXCEPT ![symbol] = price]
                /\ SetWorldCore(w)
                /\ events' = w.events
                /\ dispatched' = d
                /\ UNCHANGED <<minute, otherVars>>

NextPrune ==
    \/ PruneTick
    \/ PruneClock

SpecPrune == InitBot /\ [][NextPrune]_vars

\* ------------------------------------------------------------------------
\* Properties
\* ------------------------------------------------------------------------

C2_OnePositionPerSymbol ==
    /\ opens - closes = Len(positions)
    /\ \A i, j \in 1..Len(positions) :
           positions[i].symbol = positions[j].symbol => i = j

\* After an open and a close, a position has been opened again.
C2_Witness == opens = 2 /\ closes = 1 /\ Len(positions) = 1

\* C3: capital conservation: current_capital is initial_capital minus the
\* entry values of all opens plus the exit values of all closes.
C3_CapitalConservation == current_capital = initial_capital + net_flow

\* A position was bought at one price and sold at another.
C3_Witness == closes >= 1 /\ net_flow # 0 /\ positions = <<>>

\* C4: the stop_loss_price of a live position never decreases; when it
\* changes, the new value is current_price * (1 - trailing_pct) and is
\* strictly greater than the old one.
C4_StopNeverDecreases ==
    [][opens' = opens =>
        \A i \in 1..Len(positions), j \in 1..Len(positions') :
            positions'[j].symbol = positions[i].symbol =>
                /\ positions'[j].stop_loss_price >= positions[i].stop_loss_price
                /\ positions'[j].stop_loss_price # positions[i].stop_loss_price =>
                       \E pct \in TrailingPcts :
                           positions'[j].stop_loss_price =
                               PctBelow(positions'[j].current_price, pct)]_vars

\* A stop ratcheted up to 4.85 at price 5.00 has stayed after the price
\* fell back to the entry price 4.00.
C4_Witness ==
    \E i \in 1..Len(positions) :
        /\ positions[i].avg_entry_price = 400
        /\ positions[i].current_price = 400
        /\ positions[i].stop_loss_price = 485

\* C5: max_drawdown never decreases; peak_capital and max_drawdown change
\* only in a close_position, which raises peak_capital when current_capital
\* is a new high and otherwise sets max_drawdown to
\* max(max_drawdown, (peak_capital - current_capital) / peak_capital).
C5_DrawdownMonotone ==
    [][/\ FracGE(max_drawdown', max_drawdown)
       /\ closes' = closes =>
              peak_capital' = peak_capital /\ max_drawdown' = max_drawdown
       /\ closes' = closes + 1 =>
              IF current_capital' > peak_capital
              THEN /\ peak_capital' = current_capital'
                   /\ max_drawdown' = max_drawdown
              ELSE /\ peak_capital' = peak_capital
                   /\ max_drawdown' =
                          FracMax(max_drawdown,
                                  Frac(peak_capital - current_capital', peak_capital))
      ]_vars

\* After a new high (peak above the initial capital) a loss was realised.
C5_Witness ==
    /\ peak_capital > initial_capital
    /\ FracGT(max_drawdown, FracZero)
    /\ closes = 2

\* A thread is inside an engine mutation: past the admission check of
\* open_position or the symbol test of close_position, not yet returned.
InMutation(t) ==
    pc[t] \in {"open_insert", "open_debit_read", "open_debit_write",
               "close_credit_read", "close_credit_write"}

\* C6: the engine's mutations run under one mutual-exclusion domain: the
\* tick thread and the scheduler thread are never inside a mutation at the
\* same time.
C6_MutualExclusion == ~(InMutation("tick") /\ InMutation("sched"))

\* Position values offered to can_open_position
AdmissionValues == {400, 500, 800, 1000, 1600}

\* C7: can_open_position returns the reason of the first failing check in
\* the order (a) positions limit reached, (b) symbol already open,
\* (c) value above max_position_size, (d) value above current_capital,
\* (e) max_drawdown at or above max_drawdown_pct, and "OK" exactly when
\* none of the five fails.
C7_AdmissionOrder ==
    \A s \in Symbols, v \in AdmissionValues :
        LET a == Len(positions) >= max_positions
            b == \E i \in 1..Len(positions) : positions[i].symbol = s
            c == v > max_position_size
            d == v > current_capital
            e == max_drawdown.num * 100 >= max_drawdown_pct * max_drawdown.den
            r == can_open_position(RM, s, v)
        IN  /\ a => r = "MaxPositions"
            /\ ~a /\ b => r = "Exists"
            /\ ~a /\ ~b /\ c => r = "ExceedsLimit"
            /\ ~a /\ ~b /\ ~c /\ d => r = "InsufficientCapital"
            /\ ~a /\ ~b /\ ~c /\ ~d /\ e => r = "MaxDrawdown"
            /\ (r = "OK") <=> ~(a \/ b \/ c \/ d \/ e)

\* The positions limit is reached and the first open symbol is offered
\* again with a value above the size limit and above the capital: checks
\* (a) to (d) all fail and (a) is reported.
C7_Witness ==
    /\ Len(positions) = max_positions
    /\ current_capital < 1000
    /\ can_open_position(RM, positions[1].symbol, 1000) = "MaxPositions"

\* C8: open_position re-validates admission: refused, it changes nothing;
\* admitted, it appends one Position for the symbol, debits current_capital
\* by quantity * entry_price and leaves the other positions, peak_capital
\* and max_drawdown alone.  Nothing else inserts: the map never holds more
\* positions than open_position admitted and close_position has not removed.
C8_OpenPosition ==
    /\ \A s \in Symbols, q \in Quantities, p \in TickPrices, a \in OpenArgs :
           LET r == open_position(RM, s, q, p, a[1], a[2])
           IN  IF can_open_position(RM, s, Value(q, p)) # "OK"
               THEN r = RM
               ELSE /\ Len(r.positions) = Len(positions) + 1
                    /\ SubSeq(r.positions, 1, Len(positions)) = positions
                    /\ r.positions[Len(r.positions)].symbol = s
                    /\ r.positions[Len(r.positions)].quantity = q
                    /\ r.positions[Len(r.positions)].avg_entry_price = p
                    /\ r.current_capital = current_capital - Value(q, p)
                    /\ r.peak_capital = peak_capital
                    /\ r.max_drawdown = max_drawdown
    /\ Len(positions) <= opens - closes

\* A second position has been opened, for less than the first left over.
C8_Witness ==
    /\ Len(positions) = 2
    /\ opens = 2
    /\ current_capital =
           initial_capital
           - Value(positions[1].quantity, positions[1].avg_entry_price)
           - Value(positions[2].quantity, positions[2].avg_entry_price)

\* C9: close_position on a symbol without a position changes nothing (and
\* reports no close), so a second close right after a successful close
\* credits nothing.
C9_CloseMissing ==
    \A s \in Symbols, p \in TickPrices, p2 \in TickPrices :
        LET r == close_position(RM, s, p)
        IN  /\ ~(\E i \in 1..Len(positions) : positions[i].symbol = s) => r = RM
            /\ close_position(r, s, p2) = r

\* After a successful close a symbol is without a position while another
\* position is open and capital is below its peak.
C9_Witness ==
    /\ closes >= 1
    /\ Len(positions) = 1
    /\ current_capital < peak_capital

\* Entry and stop-loss prices offered to calculate_position_size
SizeEntries == {100, 400, 500, 100000}
SizeStops == {0, 97, 388, 400, 485, 499, 500, 600}

\* C10: for a positive entry price, any stop and any reachable capital
\* calculate_position_size returns a non-negative multiple of 100 whose
\* value is at most max_position_size, and 0 when entry and stop are equal
\* or the share count is below one lot.
C10_PositionSize ==
    \A e \in SizeEntries, st \in SizeStops :
        LET q == calculate_position_size(RM, e, st)
            risk == IF e > st THEN e - st ELSE st - e
            byRisk == (current_capital * risk_per_trade) \div risk
            byValue == (max_position_size * 100) \div e
        IN  /\ q >= 0
            /\ q % 100 = 0
            /\ q * e <= max_position_size * 100
            /\ e = st => q = 0
            /\ e # st /\ (byRisk < 100 \/ byValue < 100) => q = 0

\* With part of the capital spent, a 3% stop gives less than one lot while
\* a stop one hundredth below the entry is capped by max_position_size.
C10_Witness ==
    /\ current_capital < initial_capital
    /\ current_capital > 0
    /\ calculate_position_size(RM, 400, 388) = 0
    /\ calculate_position_size(RM, 500, 499) = 100

\* C11: in every pass of monitor_positions, for every symbol whose
\* stop-loss condition held (current_price <= stop_loss_price), the position
\* is then closed with reason "Stop Loss" and check_take_profit is not
\* entered for that symbol in that pass.
C11_StopLossExcludesTakeProfit ==
    \A i \in 1..Len(events) :
        events[i][1] = "stop_loss_triggered" =>
            /\ \E j \in (i + 1)..Len(events) :
                   events[j] = <<"close", events[i][2], "Stop Loss">>
            /\ \A j \in 1..Len(events) :
                   events[j] # <<"check_take_profit", events[i][2]>>

\* A pass in which the stop-loss condition held for a symbol, its order was
\* rejected, and check_take_profit then closed the same position.
C11_TakeProfitAfterStopLoss ==
    \E i, j \in 1..Len(events) :
        /\ i < j
        /\ events[i][1] = "stop_loss_triggered"
        /\ events[j] = <<"close", events[i][2], "Take Profit">>

\* C12: within one minute bucket, at most one signal of each identity
\* (symbol, signal_type, minute) reaches _execute_buy, _execute_sell or
\* _execute_cutloss, so at most one order attempt is made for it.
C12_OneDispatchPerIdentity ==
    \A id \in DOMAIN dispatched : dispatched[id] <= 1

\* A signal whose dispatch returned without raising is recorded as processed.
C12_RecordedAfterDispatch ==
    \E id \in DOMAIN dispatched : id \in processed_signals /\ dispatched[id] = 1

\* C13: every order the gateway accepted, manual or automated, was admitted
\* and recorded by the risk engine: the gateway's book of accepted orders
\* (paper_positions) holds, for every symbol, exactly the quantity of the
\* engine's position in it.
C13_GatewayMatchesLedger ==
    \A s \in Symbols : paper_positions[s] = EngineQuantity(RM, s)

\* The events of the last handler run
Happened(e) == \E i \in 1..Len(events) : events[i] = e

\* C14: in every tick, whatever fails, check_stop_loss is entered for every
\* symbol that had a position when monitor_positions started, and the tick's
\* own signal, unless None or HOLD, is handed to _process_signal.
C14_TickIsolation ==
    \A i \in 1..Len(events) :
        /\ events[i][1] = "monitor_positions" =>
               \A k \in 1..Len(events[i][2]) :
                   Happened(<<"check_stop_loss", events[i][2][k]>>)
        /\ events[i][1] = "tick" /\ events[i][3] \notin {"NONE", "HOLD"} =>
               Happened(<<"process_signal", events[i][2], events[i][3]>>)

\* A tick in which two positions were to be checked and the exception of the
\* first one's stop-loss order left the second unchecked.
C14_OtherSymbolSkipped ==
    \E i \in 1..Len(events) :
        /\ events[i][1] = "monitor_positions"
        /\ Len(events[i][2]) = 2
        /\ Happened(<<"order", events[i][2][1], "SELL", "error">>)
        /\ ~Happened(<<"check_stop_loss", events[i][2][2]>>)

\* C15: in every handler run, every committed open and close is followed by
\* a send_notification call for its symbol, and so is every BUY signal that
\* reached _execute_buy and was refused before any order was placed (zero
\* size or admission refusal).
C15_EveryOutcomeNotified ==
    \A i \in 1..Len(events) :
        /\ events[i][1] \in {"open", "close"} =>
               \E j \in (i + 1)..Len(events) : events[j] = <<"notify", events[i][2]>>
        /\ (/\ events[i][1] = "dispatch"
            /\ events[i][3] = "BUY"
            /\ \A o \in Outcomes : ~Happened(<<"order", events[i][2], "BUY", o>>)) =>
               \E j \in (i + 1)..Len(events) : events[j] = <<"notify", events[i][2]>>

\* A stop-loss close that no notification follows
C15_SilentStopLoss ==
    \E i \in 1..Len(events) :
        /\ events[i][1] = "close"
        /\ events[i][3] = "Stop Loss"
        /\ ~Happened(<<"notify", events[i][2]>>)

\* A BUY signal dropped for zero size without notification
C15_SilentZeroSize ==
    \E s \in BotSymbols :
        /\ events # <<>>
        /\ events[Len(events)] = <<"size", s, 0>>
        /\ ~Has(positions, s)

\* Opens, signal closes and admission refusals that were notified
C15_Notified ==
    \E i \in 1..Len(events) :
        /\ events[i][1] = "close"
        /\ events[i][3] = "Signal"
        /\ events[Len(events)] = <<"notify", events[i][2]>>

\* C16: get_portfolio_summary changes no engine state, and what it returns
\* (current_capital, total_position_value, total_value, total_pnl,
\* num_positions) is the summary of one single state the engine was in
\* during the call.
C16_SummaryUnchanged ==
    [][summary'.pc # summary.pc => UNCHANGED <<engineVars, executorVars>>]_vars

C16_ConsistentSnapshot ==
    summary.pc = "returned" => summary.result[1] \in summary.snapshots

\* C17: a handler run (tick or DCA job) that starts after stop() has
\* signalled shutdown (is_running false) submits no order and opens or
\* closes no position.
C17_NoOrderAfterShutdown ==
    Happened(<<"started", FALSE>>) =>
        \A i \in 1..Len(events) : events[i][1] \notin {"order", "open", "close"}

\* After stop() has stopped the scheduler and the stream no handler starts.
C17_StoppedIsQuiet ==
    [][~stream_running /\ ~scheduler_running => UNCHANGED <<engineVars, events>>]_vars

\* C19: after any sequence of add calls the history holds
\* min(number of adds, max_size) entries, which are the most recent ones in
\* insertion order (oldest first) exactly as they were added, and its five
\* sequences have the same length.
C19_RingBuffer ==
    LET n == Len(added)
        m == Min(n, history.max_size)
    IN  /\ HistoryLen(history) = m
        /\ Len(history.volumes) = m
        /\ Len(history.highs) = m
        /\ Len(history.lows) = m
        /\ Len(history.timestamps) = m
        /\ \A i \in 1..m :
               [price |-> history.prices[i], volume |-> history.volumes[i],
                high |-> history.highs[i], low |-> history.lows[i],
                timestamp |-> history.timestamps[i]] = added[n - m + i]

\* More points were added than the history holds: the oldest are gone.
C19_Witness ==
    /\ Len(added) = MaxAdds
    /\ HistoryLen(history) = test_max_size
    /\ history.timestamps[1] # added[1].timestamp

\* C18: generate_signal returns None exactly when the symbol has no history
\* or fewer than 30 recorded points, and a tick for which it returned None
\* hands nothing to _process_signal: no dispatch, no signal order, no
\* notification, no position opened, no signal id recorded; only mark and
\* monitor act.
C18_MinimumHistory ==
    /\ [](last_signal # None =>
            (last_signal[1].signal = NoSignal <=> last_signal[1].points < min_history))
    /\ [][price_histories' # price_histories /\ last_signal'[1].signal = NoSignal =>
            /\ opens' = opens
            /\ processed_signals' = processed_signals
            /\ \A s \in Symbols : EngineQuantity(RM', s) <= EngineQuantity(RM, s)
            /\ \A j \in 1..Len(events') :
                   /\ events'[j][1] \notin {"process_signal", "dispatch", "notify", "open"}
                   /\ events'[j][1] = "order" => events'[j][3] = "SELL"
            /\ \A j \in 1..Len(events') :
                   events'[j][1] = "close" => events'[j][3] \in {"Stop Loss", "Take Profit"}]_vars

\* The first tick that gives a signal: the 30th point, a BUY that is
\* dispatched and opens a position.
C18_Witness ==
    /\ last_signal # None
    /\ last_signal[1].points = min_history
    /\ last_signal[1].signal.signal_type = "BUY"
    /\ Happened(<<"open", SignalTickSymbol>>)

\* A tick below the minimum history and a call for a symbol without history
C18_NoSignalSeen ==
    /\ last_signal # None
    /\ last_signal[1].symbol = "VHM"
    /\ last_signal[1].points = 0
    /\ Points(price_histories, SignalTickSymbol) = min_history - 1
    /\ Happened(<<"tick", SignalTickSymbol, "NONE", "WEAK">>)
    /\ Happened(<<"check_stop_loss", SignalTickSymbol>>)

\* C20: every live position carries the last price it was constructed with
\* or marked to, and pnl = (current_price - avg_entry_price) * quantity;
\* an update_position_price call changes the current_price / pnl /
\* pnl_percent of that symbol's position only: its quantity, entry price,
\* stop and target stay, every other position stays, every capital field
\* stays, and without a position of the symbol nothing changes at all.
C20_MarkToMarket ==
    /\ [](\A i \in 1..Len(positions) :
            /\ positions[i].current_price = mark.prices[positions[i].symbol]
            /\ positions[i].pnl = Value(positions[i].quantity,
                                        positions[i].current_price
                                            - positions[i].avg_entry_price))
    /\ [][mark'.call # None =>
            /\ <<current_capital, peak_capital, max_drawdown, opens, closes, net_flow>>'
                   = <<current_capital, peak_capital, max_drawdown, opens, closes, net_flow>>
            /\ Keys(positions') = Keys(positions)
            /\ \A i \in 1..Len(positions) :
                   IF positions[i].symbol = mark'.call[1][1]
                   THEN positions'[i] =
                            [positions[i] EXCEPT !.current_price = mark'.call[1][2],
                                                 !.pnl = positions'[i].pnl,
                                                 !.pnl_percent = positions'[i].pnl_percent]
                   ELSE positions'[i] = positions[i]
            /\ ~Has(positions, mark'.call[1][1]) => positions' = positions]_vars

\* Two live positions, one of them just marked away from its entry price
\* to a loss, the other still at its entry price.
C20_Witness ==
    /\ mark.call # None
    /\ Len(positions) = 2
    /\ Has(positions, mark.call[1][1])
    /\ Get(positions, mark.call[1][1]).pnl < 0
    /\ \E i \in 1..2 : /\ positions[i].symbol # mark.call[1][1]
                       /\ positions[i].pnl = 0

\* update_position_price called for a symbol without a position while
\* another symbol has one
C20_NoPositionCall ==
    /\ mark.call # None
    /\ Len(positions) = 1
    /\ ~Has(positions, mark.call[1][1])

\* C21: while no close has realised a loss (every exit price at or above
\* the entry price), max_drawdown is 0 and the drawdown rule of the
\* admission check refuses nothing, whatever else is still open.
C21_NoLossNoDrawdown ==
    /\ max_drawdown = FracZero
    /\ \A s \in Symbols : can_open_position(RM, s, 0) # "MaxDrawdown"

\* One of two positions closed at its entry price: the other is still
\* open and the drawdown rule now refuses a third symbol.
C21_GateTripsWithoutLoss ==
    /\ closes = 1
    /\ Len(positions) = 1
    /\ net_flow = -Value(positions[1].quantity, positions[1].avg_entry_price)
    /\ \E s \in Symbols : can_open_position(RM, s, 0) = "MaxDrawdown"

\* C22: with _execute_buy on the tick thread and _dca_job on the scheduler
\* thread interleaved, an accepted BUY order always reaches a successful
\* open_position: the admission check inside open_position passes, and the
\* insert finds no position of the symbol to overwrite.
C22_AcceptedBuyIsOpened ==
    \A t \in Threads :
        /\ pc[t] = "open_check" =>
               can_open_position(RM, frame[t].symbol,
                                 Value(frame[t].quantity, frame[t].price)) = "OK"
        /\ pc[t] = "open_insert" => ~Has(positions, frame[t].symbol)

\* An accepted BUY of one thread meets the position the other thread has
\* just opened for the same symbol: open_position refuses, the shares
\* bought at the gateway have no ledger position.
C22_AcceptedBuyRefused ==
    \E t \in Threads :
        /\ pc[t] = "open_check"
        /\ opens = 1
        /\ Has(positions, frame[t].symbol)

\* Both threads passed the admission check of open_position for the same
\* symbol: the second insert overwrites the first position.
C22_PositionOverwritten ==
    \E t \in Threads :
        /\ pc[t] = "open_insert"
        /\ Has(positions, frame[t].symbol)

\* C23 as stated: a tick whose signal is a WEAK BUY or SELL dispatches
\* nothing, and afterwards the identity of the signal is in
\* processed_signals.
C23_WeakSignalRecorded ==
    \A s \in BotSymbols, t \in {"BUY", "SELL"} :
        Happened(<<"tick", s, t, "WEAK">>) /\ Happened(<<"process_signal", s, t>>) =>
            /\ ~Happened(<<"dispatch", s, t>>)
            /\ <<s, t, minute>> \in processed_signals

\* Position of the first event of kind k in the log evs (0: none)
First(evs, k) ==
    IF \E i \in 1..Len(evs) : evs[i][1] = k
    THEN CHOOSE i \in 1..Len(evs) :
             /\ evs[i][1] = k
             /\ \A j \in 1..(i - 1) : evs[j][1] # k
    ELSE 0

\* e is in the log evs
Logged(evs, e) == \E i \in 1..Len(evs) : evs[i] = e

\* C23: a tick whose signal is a WEAK BUY or SELL dispatches nothing, places
\* no order after _process_signal was entered and leaves processed_signals
\* as it was: the identity is not recorded.  A later BUY, SELL or CUTLOSS
\* signal that is not WEAK and whose identity is not in processed_signals
\* is dispatched once _process_signal is entered.
C23_WeakSignalNotRecorded ==
    [][(Len(events') >= 2 /\ events'[2][1] = "tick") =>
          LET s == events'[2][2]
              t == events'[2][3]
              entered == First(events', "process_signal")
          IN  /\ (t \in {"BUY", "SELL"} /\ events'[2][4] = "WEAK") =>
                    /\ processed_signals' = processed_signals
                    /\ First(events', "dispatch") = 0
                    /\ entered # 0 =>
                           \A k \in (entered + 1)..Len(events') :
                               events'[k][1] \notin {"order", "open", "close", "notify"}
              /\ (/\ t \in {"BUY", "SELL", "CUTLOSS"}
                  /\ events'[2][4] = "STRONG"
                  /\ entered # 0
                  /\ <<s, t, minute>> \notin processed_signals)
                 => Logged(events', <<"dispatch", s, t>>)]_vars

\* A WEAK BUY went through _process_signal while another identity was on
\* record: the set still lacks the WEAK signal's identity.
C23_Witness ==
    \E s \in BotSymbols :
        /\ Happened(<<"tick", s, "BUY", "WEAK">>)
        /\ Happened(<<"process_signal", s, "BUY">>)
        /\ processed_signals # {}
        /\ <<s, "BUY", minute>> \notin processed_signals

\* C24: after a BUY signal is dispatched, _execute_buy sizes the position;
\* a BUY order is submitted only for a size above 0 that can_open_position
\* admitted, as a LIMIT order at the tick price for exactly that size;
\* open_position is called only after the order was accepted, with the same
\* size and price and the default stop-loss; with size 0 or a refusal there
\* is no order and no ledger call.
C24_BuyOrderAsSized ==
    \A i \in 1..Len(events) :
        events[i][1] = "dispatch" /\ events[i][3] = "BUY" =>
            LET s == events[i][2]
                price == latest_prices[s]
                rest == SubSeq(events, i + 1, Len(events))
                q == rest[1][3]
            IN  /\ rest # <<>>
                /\ rest[1][1] = "size"
                /\ rest[1][2] = s
                /\ \A j \in 1..Len(rest) :
                       rest[j][1] = "submit" =>
                           /\ q > 0
                           /\ j = 3
                           /\ rest[2] = <<"can_open", s, "OK">>
                           /\ rest[j] = <<"submit", s, "BUY", q, price, "LIMIT">>
                /\ \A j \in 1..Len(rest) :
                       rest[j][1] = "open_position" =>
                           /\ j = 5
                           /\ rest[4] = <<"order", s, "BUY", "accepted">>
                           /\ rest[j] = <<"open_position", s, q, price,
                                          Some(calculate_stop_loss_price(price, "BUY"))>>
                /\ (q = 0 \/ (Len(rest) >= 2 /\ rest[2][3] # "OK")) =>
                       \A j \in 1..Len(rest) :
                           rest[j][1] \notin {"submit", "order", "open_position",
                                              "open", "close"}

\* A dispatched BUY that was sized, admitted, submitted, accepted and opened
C24_Witness ==
    \E s \in BotSymbols, i \in 1..Len(events) :
        /\ events[i] = <<"dispatch", s, "BUY">>
        /\ Len(events) >= i + 6
        /\ events[i + 3][1] = "submit"
        /\ events[i + 6] = <<"open", s>>
        /\ Has(positions, s)

\* A dispatched BUY refused by can_open_position: no order
C24_Refused ==
    \E s \in BotSymbols, i \in 1..Len(events) :
        /\ events[i] = <<"dispatch", s, "BUY">>
        /\ Len(events) >= i + 2
        /\ events[i + 2][1] = "can_open"
        /\ events[i + 2][3] # "OK"
        /\ ~\E j \in 1..Len(events) : events[j][1] = "submit"

\* A dispatched BUY sized to 0 shares: nothing follows
C24_ZeroSize ==
    \E s \in BotSymbols :
        /\ Len(events) >= 2
        /\ events[Len(events) - 1] = <<"dispatch", s, "BUY">>
        /\ events[Len(events)] = <<"size", s, 0>>

\* C25: when a SELL or CUTLOSS signal is dispatched for a symbol that has no
\* position at that moment, nothing follows: no order, no ledger call, and
\* ledger and gateway stay as they were; when the symbol has a position, the
\* one order submitted is a SELL for exactly the position's quantity at the
\* tick price, LIMIT for SELL and MARKET for CUTLOSS.
C25_SellFullQuantity ==
    [][\A s \in BotSymbols, t \in {"SELL", "CUTLOSS"} :
          \A i \in 1..Len(events') :
              events'[i] = <<"dispatch", s, t>> =>
                  LET rest == SubSeq(events', i + 1, Len(events'))
                      held == /\ Has(positions, s)
                              /\ \A k \in 1..(i - 1) :
                                     ~(events'[k][1] = "close" /\ events'[k][2] = s)
                  IN  IF held
                      THEN /\ rest # <<>>
                           /\ rest[1] = <<"submit", s, "SELL",
                                          Get(positions, s).quantity, latest_prices'[s],
                                          IF t = "SELL" THEN "LIMIT" ELSE "MARKET">>
                           /\ \A j \in 2..Len(rest) : rest[j][1] # "submit"
                      ELSE /\ rest = <<>>
                           /\ (\A k \in 1..Len(events') : events'[k][1] # "close") =>
                                  UNCHANGED <<engineVars, executorVars>>]_vars

\* A CUTLOSS that sold a position of two lots with a MARKET order and a
\* second position still held
C25_Witness ==
    \E s \in BotSymbols :
        /\ Happened(<<"dispatch", s, "CUTLOSS">>)
        /\ Happened(<<"submit", s, "SELL", 200, 400, "MARKET">>)
        /\ Happened(<<"close", s, "CUTLOSS">>)
        /\ Len(positions) = 1

\* A SELL dispatched for a symbol without a position: the log ends there
C25_NothingToSell ==
    \E s \in BotSymbols :
        /\ events # <<>>
        /\ events[Len(events)] = <<"dispatch", s, "SELL">>
        /\ ~Has(positions, s)
        /\ Len(positions) = 1

\* C26: a step changes the stop_loss_price of a held position only as the
\* ratchet of monitor_positions: neither the stop-loss nor the take-profit
\* condition of the position held in that pass, its pnl_percent was above
\* 5%, and the new stop is 3% below its current price.
C26_RatchetOnlyWhenNeitherFired ==
    [][\A s \in Symbols :
          (/\ Has(positions, s)
           /\ Has(positions', s)
           /\ Get(positions', s).stop_loss_price # Get(positions, s).stop_loss_price)
          => /\ ~should_stop_loss(Get(positions, s))
             /\ ~should_take_profit(Get(positions, s))
             /\ FracGTPct(Get(positions, s).pnl_percent, 5)
             /\ Get(positions', s).stop_loss_price
                    = PctBelow(Get(positions, s).current_price, 3)]_vars

\* The ratchet itself is as stated: the stop moves only when the position
\* is still held after both checks returned False, at more than 5% profit,
\* to 3% below the current price.
C26_RatchetAfterBothChecks ==
    [][\A s \in Symbols :
          (/\ Has(positions, s)
           /\ Has(positions', s)
           /\ Get(positions', s).stop_loss_price # Get(positions, s).stop_loss_price)
          => /\ Logged(events', <<"check_stop_loss", s>>)
             /\ Logged(events', <<"check_take_profit", s>>)
             /\ ~Logged(events', <<"close", s, "Stop Loss">>)
             /\ ~Logged(events', <<"close", s, "Take Profit">>)
             /\ FracGTPct(Get(positions, s).pnl_percent, 5)
             /\ Get(positions', s).stop_loss_price
                    = PctBelow(Get(positions, s).current_price, 3)]_vars

\* The take-profit order of a position at its target was rejected and the
\* position's stop was ratcheted in the same pass.
C26_RatchetAfterTakeProfitFired ==
    \E s \in Symbols :
        /\ Has(positions, s)
        /\ should_take_profit(Get(positions, s))
        /\ Happened(<<"order", s, "SELL", "rejected">>)
        /\ Get(positions, s).stop_loss_price = PctBelow(Get(positions, s).current_price, 3)

\* C27: the log of every tick of symbol S at price p runs in this order:
\* update_price(S, p), update_position_price(S, p), monitor_positions with
\* all its checks, orders and closes, generate_signal(S, p), and only then
\* _process_signal and the dispatch with what it submits.  An order that
\* monitor_positions submits for S carries the price p.
C27_TickOrder ==
    \A s \in BotSymbols :
        (Len(events) >= 2 /\ events[2][1] = "tick" /\ events[2][2] = s) =>
            LET p == latest_prices[s]
                gen == First(events, "generate_signal")
                last == IF gen = 0 THEN Len(events) ELSE gen - 1
            IN  /\ Len(events) >= 5
                /\ events[3] = <<"update_price", s, p>>
                /\ events[4] = <<"update_position_price", s, p>>
                /\ events[5][1] = "monitor_positions"
                /\ \A i \in 6..last :
                       /\ events[i][1] \in {"check_stop_loss", "stop_loss_triggered",
                                            "check_take_profit", "submit", "order", "close"}
                       /\ (events[i][1] = "submit" /\ events[i][2] = s) => events[i][5] = p
                /\ gen # 0 =>
                       /\ events[gen] = <<"generate_signal", s, p>>
                       /\ \A i \in (gen + 1)..Len(events) :
                              events[i][1] \in {"process_signal", "dispatch", "size",
                                                "can_open", "submit", "order",
                                                "open_position", "open", "close", "notify"}
                /\ gen = 0 => ~Happened(<<"process_signal", s, events[2][3]>>)

\* A tick whose monitor pass sold the ticked symbol at the tick price on a
\* stop-loss and whose signal was dispatched afterwards
C27_Witness ==
    \E s \in BotSymbols :
        /\ Len(events) >= 2
        /\ events[2][1] = "tick"
        /\ events[2][2] = s
        /\ Happened(<<"submit", s, "SELL", 200, 400, "MARKET">>)
        /\ Happened(<<"close", s, "Stop Loss">>)
        /\ First(events, "close") < First(events, "generate_signal")
        /\ First(events, "generate_signal") < First(events, "dispatch")

\* C28: a generate_signal call that collected votes returns CUTLOSS / STRONG
\* when a CUTLOSS vote is present whatever the other votes; otherwise BUY
\* when count(BUY) > count(SELL) and SELL when count(SELL) > count(BUY),
\* STRONG for a winning count >= 3, MODERATE for 2 and WEAK for 1; and HOLD
\* when the counts are equal, no votes at all included.
C28_Aggregation ==
    (last_signal # None /\ last_signal[1].votes # None) =>
        LET v == last_signal[1].votes[1]
            sig == last_signal[1].signal
            strength(n) == IF n >= 3 THEN "STRONG"
                           ELSE IF n = 2 THEN "MODERATE"
                           ELSE IF n = 1 THEN "WEAK" ELSE "UNDEFINED"
        IN  /\ v.cutloss >= 1 => sig = [signal_type |-> "CUTLOSS", strength |-> "STRONG"]
            /\ (v.cutloss = 0 /\ v.buy > v.sell) =>
                   sig = [signal_type |-> "BUY", strength |-> strength(v.buy)]
            /\ (v.cutloss = 0 /\ v.sell > v.buy) =>
                   sig = [signal_type |-> "SELL", strength |-> strength(v.sell)]
            /\ (v.cutloss = 0 /\ v.buy = v.sell) => sig.signal_type = "HOLD"

\* Two BUY votes against one SELL vote gave BUY / MODERATE on a tick
C28_Witness ==
    /\ last_signal # None
    /\ last_signal[1].votes = Some([buy |-> 2, sell |-> 1, cutloss |-> 0])
    /\ last_signal[1].signal = [signal_type |-> "BUY", strength |-> "MODERATE"]
    /\ Happened(<<"tick", SignalTickSymbol, "BUY", "MODERATE">>)

\* A CUTLOSS vote beside three BUY votes gave CUTLOSS
C28_CutlossFirst ==
    /\ last_signal # None
    /\ last_signal[1].votes = Some([buy |-> 3, sell |-> 0, cutloss |-> 1])
    /\ last_signal[1].signal.signal_type = "CUTLOSS"

\* Equal counts and no votes at all gave HOLD
C28_Hold ==
    /\ last_signal # None
    /\ last_signal[1].votes \in {Some([buy |-> 0, sell |-> 0, cutloss |-> 0]),
                                 Some([buy |-> 2, sell |-> 2, cutloss |-> 0])}
    /\ last_signal[1].signal.signal_type = "HOLD"

\* C29: with support > 0, a price within 0.2% above support casts a BUY vote
\* and a price at or below 98% of support casts a SELL vote, not a BUY vote.
C29_SupportRule ==
    (support_vote # None /\ support_vote[1].support > 0) =>
        LET price == support_vote[1].price
            support == support_vote[1].support
        IN  /\ (support <= price /\ price * 1000 <= support * 1002) =>
                   support_vote[1].vote = "BUY"
            /\ price * 100 <= support * 98 => support_vote[1].vote = "SELL"

\* C29 (support): the rule as the code evaluates it: every price up to
\* 0.2% above support, however far below, casts BUY, and no price casts SELL.
C29_BuyAtOrBelowSupport ==
    (support_vote # None /\ support_vote[1].support > 0) =>
        /\ support_vote[1].vote # "SELL"
        /\ support_vote[1].vote = "BUY" <=>
               support_vote[1].price * 1000 <= support_vote[1].support * 1002

\* A price 3% under the support level cast a BUY vote that decided the signal
C29_BuyBelowSupport ==
    /\ support_vote = Some([price |-> 9700, support |-> 10000, vote |-> "BUY"])
    /\ last_signal[1].votes = Some([buy |-> 1, sell |-> 0, cutloss |-> 0])
    /\ last_signal[1].signal = [signal_type |-> "BUY", strength |-> "WEAK"]

\* C30: in paper mode with orders coming only from ticks and DCA runs
\* executed one after another, after every completed handler paper_cash has
\* changed by exactly what current_capital has changed by, and for every
\* symbol paper_positions[symbol] is the quantity of the open ledger
\* position (0 when none), so never negative.
C30_BookMatchesLedger ==
    /\ paper_cash - paper_cash_init = current_capital - initial_capital
    /\ \A s \in Symbols :
           /\ paper_positions[s] = EngineQuantity(RM, s)
           /\ paper_positions[s] >= 0

\* A position was bought and sold again and another one is open: cash and
\* book moved with the ledger
C30_Witness ==
    /\ paper_mode
    /\ closes >= 1
    /\ paper_cash # paper_cash_init
    /\ \E s \in BotSymbols : Has(positions, s) /\ paper_positions[s] > 0
    /\ \E s \in BotSymbols : ~Has(positions, s) /\ paper_positions[s] = 0

\* C31: once max_drawdown >= max_drawdown_pct the gate stays shut: no step
\* lowers max_drawdown, can_open_position refuses every symbol and value,
\* no open_position succeeds, and the open positions can only become fewer.
C31_GatePermanent ==
    [][FracGEPct(max_drawdown, max_drawdown_pct) =>
          /\ FracGE(max_drawdown', max_drawdown)
          /\ FracGEPct(max_drawdown', max_drawdown_pct)
          /\ \A s \in Symbols, v \in AdmissionValues \cup {0, 100} :
                 can_open_position(RM, s, v) # "OK"
          /\ opens' = opens
          /\ Len(positions') <= Len(positions)
          /\ \A s \in Symbols : Has(positions', s) => Has(positions, s)]_vars

\* The gate is shut while there is cash and a free slot: the drawdown rule
\* alone refuses a new symbol, and a position opened before is still held.
C31_Witness ==
    /\ FracGEPct(max_drawdown, max_drawdown_pct)
    /\ Len(positions) = 1
    /\ \E s \in Symbols : can_open_position(RM, s, 400) = "MaxDrawdown"

\* C32: after every tick, each position still open with current_price <=
\* stop_loss_price had a MARKET SELL for its full quantity at that price
\* submitted in the tick; a stop-loss SELL that was accepted closed the
\* position with reason "Stop Loss", and one that was not accepted left the
\* position in the ledger.
C32_StopLossRetried ==
    (Len(events) >= 2 /\ events[2][1] = "tick") =>
        /\ \A i \in 1..Len(positions) :
               should_stop_loss(positions[i]) =>
                   Happened(<<"submit", positions[i].symbol, "SELL",
                              positions[i].quantity, positions[i].current_price,
                              "MARKET">>)
        /\ \A j \in 1..Len(events) :
               (events[j][1] = "stop_loss_triggered" /\ Len(events) >= j + 2) =>
                   IF events[j + 2] = <<"order", events[j][2], "SELL", "accepted">>
                   THEN /\ Len(events) >= j + 3
                        /\ events[j + 3] = <<"close", events[j][2], "Stop Loss">>
                   ELSE Len(events) = j + 2 \/ events[j + 3][1] # "close"

\* C32 (support): the same in every tick in which no order raised: the
\* retry is missed only when an exception ended the monitor pass.
C32_RetriedUnlessAborted ==
    (/\ Len(events) >= 2
     /\ events[2][1] = "tick"
     /\ \A j \in 1..Len(events) :
            ~(events[j][1] = "order" /\ events[j][4] = "error")) =>
        C32_StopLossRetried

\* Two positions at or under their stops: the first one's stop-loss order
\* raised, and the tick ended without a SELL for the second.
C32_RetrySkipped ==
    /\ Len(positions) = 2
    /\ should_stop_loss(positions[1])
    /\ should_stop_loss(positions[2])
    /\ Happened(<<"order", positions[1].symbol, "SELL", "error">>)
    /\ ~Happened(<<"check_stop_loss", positions[2].symbol>>)

\* C33: in every state reached by sequential operations
\* 0 <= current_capital <= peak_capital and 0 <= max_drawdown <= 1; an open
\* never takes more than the cash at hand.
C33_CapitalBounds ==
    /\ 0 <= current_capital
    /\ current_capital <= peak_capital
    /\ max_drawdown.den > 0
    /\ 0 <= max_drawdown.num
    /\ max_drawdown.num <= max_drawdown.den
    /\ \A s \in Symbols, v \in AdmissionValues :
           can_open_position(RM, s, v) = "OK" => v <= current_capital

\* Cash is below the peak after a realised loss, a position is open, and
\* the capital rule is what refuses a further position of a permitted size.
C33_Witness ==
    /\ current_capital < peak_capital
    /\ FracGT(max_drawdown, FracZero)
    /\ Len(positions) = 1
    /\ \E s \in Symbols, v \in AdmissionValues :
           can_open_position(RM, s, v) = "InsufficientCapital"

\* C34: the number of open positions never exceeds max_positions.
C34_PositionsLimit == Len(positions) <= max_positions

\* Every slot is taken after one was freed and filled again; cash would pay
\* for one more position and the positions limit refuses it.
C34_Witness ==
    /\ Len(positions) = max_positions
    /\ opens = 3
    /\ current_capital >= 400
    /\ \E s \in Symbols : /\ ~Has(positions, s)
                          /\ can_open_position(RM, s, 400) = "MaxPositions"

\* What the close events of the kept log give as reasons
CloseReasons == {events[i][3] : i \in {j \in 1..Len(events) : events[j][1] = "close"}}

\* C35: every position the running bot holds has no take-profit price, no
\* check_take_profit places an order, and every close carries the reason of
\* a stop-loss, a SELL signal or a CUTLOSS signal, never "Take Profit".
C35_NoTakeProfit ==
    /\ \A i \in 1..Len(positions) :
           /\ positions[i].take_profit_price = None
           /\ ~should_take_profit(positions[i])
    /\ \A i \in 1..Len(events) : events[i][1] # "submit"
    /\ "Take Profit" \notin CloseReasons
    /\ CloseReasons \subseteq {"Stop Loss", "Signal", "CUTLOSS"}

\* A position stands 25% over its entry after a tick whose monitor pass
\* checked it, and an earlier position was closed by a SELL signal
C35_Witness ==
    /\ \E i \in 1..Len(positions) :
           /\ positions[i].avg_entry_price = 400
           /\ positions[i].current_price = 500
           /\ positions[i].take_profit_price = None
    /\ closes >= 1
    /\ events = <<>>

\* A run that closed on a SELL signal
C35_SignalClose == CloseReasons = {"Signal"}

\* A run that closed on a stop-loss, and one that closed on a CUTLOSS signal
C35_StopLossClose == CloseReasons = {"Stop Loss"}

C35_CutlossClose == CloseReasons = {"CUTLOSS"}

\* C36: in every generate_signal call that reached the strategies, an RSI
\* below 30, the value 0 included, casts BUY and an RSI above 70 casts
\* SELL; Strategy 4 is skipped only when calculate_rsi returned None.
C36_RsiRule ==
    (rsi_call # None /\ rsi_call[1].rsi # None /\ rsi_call[1].rsi[1].den # 0) =>
        LET rsi == rsi_call[1].rsi[1]
        IN  /\ rsi.num < 30 * rsi.den => rsi_call[1].vote = "BUY"
            /\ rsi.num > 70 * rsi.den => rsi_call[1].vote = "SELL"

\* C36 (support): the rule holds for every RSI other than 0, and an RSI
\* between 30 and 70 casts nothing.
C36_RsiRuleExceptZero ==
    (/\ rsi_call # None
     /\ rsi_call[1].rsi # None
     /\ rsi_call[1].rsi[1].den # 0
     /\ rsi_call[1].rsi[1].num # 0) =>
        LET rsi == rsi_call[1].rsi[1]
        IN  /\ rsi.num < 30 * rsi.den => rsi_call[1].vote = "BUY"
            /\ rsi.num > 70 * rsi.den => rsi_call[1].vote = "SELL"
            /\ (rsi.num >= 30 * rsi.den /\ rsi.num <= 70 * rsi.den) =>
                   rsi_call[1].vote = "NONE"

\* Thirty falling prices: the RSI is 0, Strategy 4 cast nothing and the
\* call returned HOLD
C36_ZeroSkipped ==
    /\ rsi_call = Some([rsi |-> Some(FracZero), vote |-> "NONE"])
    /\ last_signal[1].votes = Some([buy |-> 0, sell |-> 0, cutloss |-> 0])
    /\ last_signal[1].signal.signal_type = "HOLD"

\* An RSI of 2/14 cast BUY and an RSI of 12/14 cast SELL
C36_LowBuys == rsi_call = Some([rsi |-> Some(Frac(200, 14)), vote |-> "BUY"])

C36_HighSells == rsi_call = Some([rsi |-> Some(Frac(1200, 14)), vote |-> "SELL"])

\* C37 as stated: after every tick, dispatching or not, processed_signals
\* holds only identities of the last 60 minute buckets.
C37_PrunedEveryTick ==
    events # <<>> => \A sid \in processed_signals : sid[3] > minute - 60

\* The run whose log is evs dispatched a signal and the dispatch returned
Recorded(evs) ==
    /\ First(evs, "dispatch") # 0
    /\ \A j \in 1..Len(evs) : ~(evs[j][1] = "order" /\ evs[j][4] = "error")

\* C37: processed_signals is pruned by age when a signal is recorded: a tick
\* whose signal was dispatched and whose dispatch returned leaves the old
\* identities of the last 60 minute buckets plus the new one, whatever the
\* size of the set; every other tick leaves the set as it was.
C37_PrunedWhenRecorded ==
    [][events' # <<>> =>
          IF Recorded(events')
          THEN LET d == events'[First(events', "dispatch")]
               IN  processed_signals' =
                       {sid \in processed_signals \cup {<<d[2], d[3], minute>>} :
                            sid[3] > minute - 60}
          ELSE processed_signals' = processed_signals]_vars

\* An identity of bucket 0 was dispatched, and after a dispatch an hour
\* later the set holds the new identity only
C37_Witness ==
    /\ minute >= 60
    /\ \E id \in DOMAIN dispatched : id[3] = 0
    /\ Recorded(events)
    /\ processed_signals # {}
    /\ \A sid \in processed_signals : sid[3] = minute

\* An hour after it was recorded, the identity of bucket 0 is still in the
\* set after a tick that dispatched nothing
C37_StaleAfterTick ==
    /\ minute >= 60
    /\ events # <<>>
    /\ ~Recorded(events)
    /\ \E sid \in processed_signals : sid[3] = 0

====
